---- MODULE Spec2Model ----
(***************************************************************************)
(* Model of the Quantum-Puzzle-Solver repository: the N-Queens board       *)
(* validators and bitstring decoding (app_enhanced_real_time.py,           *)
(* quantum_solver.py), the result interpretation of                        *)
(* NQueensQuantumSolver.solve, and the graph-coloring checker and greedy   *)
(* search of simulate_graph_coloring.                                      *)
(*                                                                         *)
(* Python values are modelled as follows:                                  *)
(*   - an n x n numpy board is a function [0..n-1 -> [0..n-1 -> {0,1}]];   *)
(*   - a str is a sequence of one-character strings (index i of Python is  *)
(*     index i+1 here);                                                    *)
(*   - a list is a sequence, a tuple (a, b) is <<a, b>>;                   *)
(*   - a dict that is iterated is a sequence of <<key, value>> pairs with *)
(*     distinct keys, in insertion order; a coloring (a dict from vertex   *)
(*     to color that is only indexed) is a function on its keys;           *)
(*   - a value that may be None is a record [is_none, value].              *)
(***************************************************************************)
EXTENDS Integers, Sequences, FiniteSets, TLC

VARIABLES
    pc,          \* which operation has been applied to the inputs
    n,           \* board size N
    board,       \* the board handed to check_n_queens_validity
    bitstring,   \* the bitstring handed to the NQueensQuantumSolver methods
    ret,         \* the value returned by the operation named by pc
    shots,       \* the shots argument of NQueensQuantumSolver.solve
    sampler,     \* the class the name Sampler is bound to at import
    measured,    \* the dict returned by the sampler's get_counts()
    env,         \* the outcome of each import statement of quantum_solver
    validation,  \* what a caller of solve learned from the validator
    reported,    \* the queen coordinates a caller of solve has reported
    basis,       \* a basis state of the board qubits: basis[i] is qubit i
    frame,       \* the local variables of the function that is running
    graph,       \* the graph: [vertices |-> count, edges |-> list of pairs]
    num_colors,  \* the requested number of colors
    coloring     \* the coloring handed to check_graph_coloring_validity

vars == <<pc, n, board, bitstring, ret, shots, sampler, measured, env,
          validation, reported, basis, frame, graph, num_colors, coloring>>

\* the variables of the import of quantum_solver, of the callers of solve
\* and of the circuit builders
callerVars == <<env, validation, reported, basis, frame>>

\* no coordinates reported yet
Unreported == [is_none |-> TRUE, value |-> <<>>]

\* the variables of NQueensQuantumSolver.solve, untouched by the validators
solveVars == <<shots, sampler, measured>>

\* the variables of the graph-coloring functions
graphVars == <<graph, num_colors, coloring>>

\* the variables of the N-Queens functions, untouched by graph coloring
queensVars == <<n, board, bitstring, shots, sampler, measured>>

(***************************************************************************)
(* Bounds of the model and constants of the program.                       *)
(***************************************************************************)
\* smallest and largest board size handled by the program
MinN == 2
MaxN == 6
\* boards of size <= ExhaustiveN are enumerated completely
ExhaustiveN == 3
\* larger boards: every board that differs from a base board (the empty
\* board, the known solutions) in at most MaxToggle cells
MaxToggle == 2
\* solve is run with every shots value in 1..MaxShots and with LossyShots
MaxShots == 3
\* a shots value for which count / total_shots * shots is not exact in
\* double arithmetic (15 / 22 * 22 < 15)
LossyShots == 22
\* the sampler reports at most MaxOutcomes distinct bitstrings
MaxOutcomes == 2
\* besides the ten example graphs, every graph with at most MaxVertices
\* vertices and at most MaxEdges edges is enumerated
MaxVertices == 3
MaxEdges == 3
\* the largest number of colors offered by the app
MaxColors == 5
\* largest board size handed to generate_intermediate_states
MaxFallbackN == 8

(***************************************************************************)
(* Python helpers.                                                         *)
(***************************************************************************)
abs(x) == IF x < 0 THEN -x ELSE x

Range(f) == {f[x] : x \in DOMAIN f}

RECURSIVE SubsetsUpTo(_, _)
SubsetsUpTo(S, k) ==
    IF k = 0 THEN {{}}
    ELSE LET P == SubsetsUpTo(S, k - 1)
         IN  P \cup {p \cup {x} : p \in P, x \in S}

Cells(m) == (0..(m - 1)) \X (0..(m - 1))

\* np.zeros((n, n), dtype=int)
zeros(m) == [i \in 0..(m - 1) |-> [j \in 0..(m - 1) |-> 0]]

(***************************************************************************)
(* app_enhanced_real_time.py: check_n_queens_validity                      *)
(***************************************************************************)
\* the inner loop "for j in range(n): if board[i][j] == 1: queens.append"
RECURSIVE RowQueens(_, _, _, _)
RowQueens(b, m, i, j) ==
    IF j >= m THEN <<>>
    ELSE (IF b[i][j] = 1 THEN << <<i, j>> >> ELSE <<>>)
         \o RowQueens(b, m, i, j + 1)

\* the outer loop "for i in range(n)"
RECURSIVE FindQueens(_, _, _)
FindQueens(b, m, i) ==
    IF i >= m THEN <<>>
    ELSE RowQueens(b, m, i, 0) \o FindQueens(b, m, i + 1)

QueensConflictNoColumn(q1, q2) ==
    \/ q1[1] = q2[1]
    \/ abs(q1[1] - q2[1]) = abs(q1[2] - q2[2])

QueensConflictNoDiagonal(q1, q2) ==
    \/ q1[1] = q2[1]
    \/ q1[2] = q2[2]

\* the three tests of the pair loop
QueensConflict(q1, q2) ==
    \/ q1[1] = q2[1]
    \/ q1[2] = q2[2]
    \/ abs(q1[1] - q2[1]) = abs(q1[2] - q2[2])

check_n_queens_validity_AtMost(b, m) ==
    LET queens == FindQueens(b, m, 0)
    IN  IF Len(queens) > m THEN FALSE
        ELSE ~ \E i \in 1..Len(queens) : \E j \in (i + 1)..Len(queens) :
                   QueensConflict(queens[i], queens[j])

check_n_queens_validity(b, m) ==
    LET queens == FindQueens(b, m, 0)
    IN  IF Len(queens) # m THEN FALSE
        ELSE ~ \E i \in 1..Len(queens) : \E j \in (i + 1)..Len(queens) :
                   QueensConflict(queens[i], queens[j])

(***************************************************************************)
(* quantum_solver.py: NQueensQuantumSolver.verify_solution and             *)
(* get_solution_coordinates (self.n is the parameter m)                    *)
(***************************************************************************)
\* "for i, bit in enumerate(bitstring): if bit == '1': board[i // n][i % n] = 1"
BitstringToBoard(bs, m) ==
    [r \in 0..(m - 1) |-> [c \in 0..(m - 1) |->
        IF \E i \in 0..(Len(bs) - 1) :
               bs[i + 1] = "1" /\ i \div m = r /\ i % m = c
        THEN 1 ELSE 0]]

\* np.sum(board[row, :])
RECURSIVE RowSum(_, _, _, _)
RowSum(b, m, row, j) ==
    IF j >= m THEN 0 ELSE b[row][j] + RowSum(b, m, row, j + 1)

\* np.sum(board[:, col])
RECURSIVE ColSum(_, _, _, _)
ColSum(b, m, col, i) ==
    IF i >= m THEN 0 ELSE b[i][col] + ColSum(b, m, col, i + 1)

\* the while loop walking from (ni, nj) in direction (di, dj)
RECURSIVE DiagonalHit(_, _, _, _, _, _)
DiagonalHit(b, m, ni, nj, di, dj) ==
    IF 0 <= ni /\ ni < m /\ 0 <= nj /\ nj < m
    THEN \/ b[ni][nj] = 1
         \/ DiagonalHit(b, m, ni + di, nj + dj, di, dj)
    ELSE FALSE

verify_solution_NoDiagonal(bs, m) ==
    LET b == BitstringToBoard(bs, m)
    IN  /\ \A row \in 0..(m - 1) : ~ (RowSum(b, m, row, 0) > 1)
        /\ \A col \in 0..(m - 1) : ~ (ColSum(b, m, col, 0) > 1)

verify_solution(bs, m) ==
    LET b == BitstringToBoard(bs, m)
    IN  /\ \A row \in 0..(m - 1) : ~ (RowSum(b, m, row, 0) > 1)
        /\ \A col \in 0..(m - 1) : ~ (ColSum(b, m, col, 0) > 1)
        /\ \A i \in 0..(m - 1) : \A j \in 0..(m - 1) :
               b[i][j] = 1 =>
                   \A di \in {-1, 1} : \A dj \in {-1, 1} :
                       ~ DiagonalHit(b, m, i + di, j + dj, di, dj)

RECURSIVE CoordinatesFrom(_, _, _)
CoordinatesFrom(bs, m, i) ==
    IF i >= Len(bs) THEN <<>>
    ELSE (IF bs[i + 1] = "1" THEN << <<i \div m, i % m>> >> ELSE <<>>)
         \o CoordinatesFrom(bs, m, i + 1)

RECURSIVE CoordinatesColumnMajor(_, _, _)
CoordinatesColumnMajor(bs, m, i) ==
    IF i >= Len(bs) THEN <<>>
    ELSE (IF bs[i + 1] = "1" THEN << <<i % m, i \div m>> >> ELSE <<>>)
         \o CoordinatesColumnMajor(bs, m, i + 1)

get_solution_coordinates_Transposed(bs, m) == CoordinatesColumnMajor(bs, m, 0)

get_solution_coordinates(bs, m) == CoordinatesFrom(bs, m, 0)

(***************************************************************************)
(* quantum_solver.py: the bitstring hard-coded in create_simplified_oracle *)
(***************************************************************************)
\* "0100001000010010"
solution_state ==
    <<"0","1","0","0", "0","0","1","0", "0","0","0","1", "0","0","1","0">>

(***************************************************************************)
(* app_enhanced_real_time.py: generate_intermediate_states, the known      *)
(* solutions and the final board built from them                           *)
(***************************************************************************)
\* the fallback placement used for every board size
queen_positions_Fallback(m) == [i \in 1..m |-> <<i - 1, (2 * (i - 1)) % m>>]

queen_positions(m) ==
    IF m = 4 THEN << <<1, 0>>, <<3, 1>>, <<0, 2>>, <<2, 3>> >>
    ELSE IF m = 5 THEN << <<0, 0>>, <<2, 1>>, <<4, 2>>, <<1, 3>>, <<3, 4>> >>
    ELSE IF m = 6 THEN
        << <<1, 0>>, <<3, 1>>, <<5, 2>>, <<0, 3>>, <<2, 4>>, <<4, 5>> >>
    ELSE [i \in 1..m |-> <<i - 1, (2 * (i - 1)) % m>>]

\* "for row, col in queen_positions: final_board[row][col] = 1"
PlaceQueens(b, m, positions) ==
    [r \in 0..(m - 1) |-> [c \in 0..(m - 1) |->
        IF \E k \in 1..Len(positions) : positions[k] = <<r, c>>
        THEN 1 ELSE b[r][c]]]

final_board(m) == PlaceQueens(zeros(m), m, queen_positions(m))

(***************************************************************************)
(* Inputs of the validators.  Boards of size <= ExhaustiveN are all        *)
(* enumerated; larger boards are the base boards (the empty board, the     *)
(* board of the known solution, the board of the oracle's bitstring) with  *)
(* at most MaxToggle cells changed.                                        *)
(***************************************************************************)
Toggle(b, m, S) ==
    [r \in 0..(m - 1) |-> [c \in 0..(m - 1) |->
        IF <<r, c>> \in S THEN 1 - b[r][c] ELSE b[r][c]]]

BaseBoards(m) ==
    {zeros(m)}
    \cup (IF m >= 4 THEN {final_board(m)} ELSE {})
    \cup (IF m = 4 THEN {BitstringToBoard(solution_state, m)} ELSE {})

Boards(m) ==
    IF m <= ExhaustiveN
    THEN [0..(m - 1) -> [0..(m - 1) -> {0, 1}]]
    ELSE {Toggle(b, m, S) : b \in BaseBoards(m),
                            S \in SubsetsUpTo(Cells(m), MaxToggle)}

\* the set of (row, col) coordinates holding a queen
QueenSet(b, m) == {q \in Cells(m) : b[q[1]][q[2]] = 1}

\* the flattened-board encoding: '1' exactly at index row * n + col
EncodeCoordinates(S, m) ==
    [k \in 1..(m * m) |->
        IF \E q \in S : q[1] * m + q[2] = k - 1 THEN "1" ELSE "0"]

(***************************************************************************)
(* The validator calls.  Init draws the inputs; each action applies one    *)
(* function of the program to them and records what it returns.            *)
(***************************************************************************)
Init ==
    /\ pc = "input"
    /\ n \in MinN..MaxN
    /\ board \in Boards(n)
    /\ bitstring = EncodeCoordinates(QueenSet(board, n), n)
    /\ ret = "none"
    /\ env = <<>>
    /\ validation = "not run"
    /\ reported = Unreported
    /\ basis = <<>>
    /\ frame = <<>>
    /\ shots = 0
    /\ sampler = "none"
    /\ measured = <<>>
    /\ graph = "none"
    /\ num_colors = 0
    /\ coloring = <<>>

CallCheckNQueensValidity ==
    /\ pc = "input"
    /\ pc' = "check_n_queens_validity"
    /\ ret' = check_n_queens_validity(board, n)
    /\ UNCHANGED <<n, board, bitstring, solveVars, graphVars, callerVars>>

CallVerifySolution ==
    /\ pc = "input"
    /\ pc' = "verify_solution"
    /\ ret' = verify_solution(bitstring, n)
    /\ UNCHANGED <<n, board, bitstring, solveVars, graphVars, callerVars>>

CallGetSolutionCoordinates ==
    /\ pc = "input"
    /\ pc' = "get_solution_coordinates"
    /\ ret' = get_solution_coordinates(bitstring, n)
    /\ UNCHANGED <<n, board, bitstring, solveVars, graphVars, callerVars>>

Next ==
    \/ CallCheckNQueensValidity
    \/ CallVerifySolution
    \/ CallGetSolutionCoordinates

Spec == Init /\ [][Next]_vars

(***************************************************************************)
(* Properties of the validators.                                           *)
(***************************************************************************)
\* two distinct squares attack each other
Attack(p, q) ==
    \/ p[1] = q[1]
    \/ p[2] = q[2]
    \/ abs(p[1] - q[1]) = abs(p[2] - q[2])

\* S is a solution of the m-Queens puzzle
IsSolution(S, m) ==
    /\ Cardinality(S) = m
    /\ \A p \in S : \A q \in S : p # q => ~ Attack(p, q)

\* the squares a bitstring marks: flat index i -> (i // m, i % m)
BitstringQueens(bs, m) ==
    {<<i \div m, i % m>> : i \in {k \in 0..(Len(bs) - 1) : bs[k + 1] = "1"}}

\* C1: check_n_queens_validity(board, n) returns True if and only if the
\* board has exactly n cells equal to 1 and no two of them share a row, a
\* column or a diagonal; so it returns False for the empty board, for every
\* board whose number of 1s differs from n and for every board with two
\* queens on a common row, column or diagonal.
C1_CheckerIffSolution ==
    pc = "check_n_queens_validity" =>
        LET S == QueenSet(board, n)
        IN  /\ ret = IsSolution(S, n)
            /\ (S = {} => ret = FALSE)
            /\ (Cardinality(S) # n => ret = FALSE)
            /\ ((\E p \in S : \E q \in S : p # q /\ Attack(p, q))
                    => ret = FALSE)

\* a board with exactly n queens, on distinct rows and distinct columns,
\* rejected because of a diagonal alone
C1_Witness ==
    /\ pc = "check_n_queens_validity"
    /\ n >= 4
    /\ LET S == QueenSet(board, n)
       IN  /\ Cardinality(S) = n
           /\ \A p \in S : \A q \in S :
                  p # q => p[1] # q[1] /\ p[2] # q[2]
    /\ ret = FALSE

\* C2: verify_solution(bitstring) returns True if and only if the bitstring
\* represents a valid N-Queens solution: exactly n queens, no two on a
\* common row, column or diagonal (all-zero bitstring included).
C2_VerifyIffSolution ==
    pc = "verify_solution" =>
        ret = IsSolution(BitstringQueens(bitstring, n), n)

\* C5: the bitstring hard-coded for n = 4 decodes to the queens (0,1),
\* (1,3), (2,0), (3,2) and is accepted by verify_solution and by
\* check_n_queens_validity.
C5_OracleBitstringIsSolution ==
    (n = 4 /\ bitstring = solution_state) =>
        /\ (pc = "get_solution_coordinates" =>
                ret = << <<0, 1>>, <<1, 3>>, <<2, 0>>, <<3, 2>> >>)
        /\ (pc = "verify_solution" => ret = TRUE)
        /\ (pc = "check_n_queens_validity" => ret = TRUE)

\* the coordinates the claim C6 lists for N = 4, 5, 6
KnownSolution(m) ==
    IF m = 4 THEN {<<1, 0>>, <<3, 1>>, <<0, 2>>, <<2, 3>>}
    ELSE IF m = 5 THEN {<<0, 0>>, <<2, 1>>, <<4, 2>>, <<1, 3>>, <<3, 4>>}
    ELSE {<<1, 0>>, <<3, 1>>, <<5, 2>>, <<0, 3>>, <<2, 4>>, <<4, 5>>}

\* C6: for N in {4,5,6} the board built from the known solution
\* coordinates is accepted by check_n_queens_validity, and the board with
\* any one of its queens removed is rejected.
C6_KnownSolutionsAccepted ==
    (pc = "check_n_queens_validity" /\ n \in {4, 5, 6}) =>
        /\ Range(queen_positions(n)) = KnownSolution(n)
        /\ QueenSet(final_board(n), n) = KnownSolution(n)
        /\ (board = final_board(n) => ret = TRUE)
        /\ \A q \in KnownSolution(n) :
               QueenSet(board, n) = KnownSolution(n) \ {q} => ret = FALSE

\* the known 6-Queens solution with its queen at (5,2) removed, checked
C6_Witness ==
    /\ pc = "check_n_queens_validity"
    /\ n = 6
    /\ QueenSet(board, n) = KnownSolution(6) \ {<<5, 2>>}
    /\ ret = FALSE

\* C7: for N in {2,3} check_n_queens_validity accepts no board, whatever
\* the number of queens and in particular no permutation placement.
C7_SmallBoardsRejected ==
    (pc = "check_n_queens_validity" /\ n \in {2, 3}) => ret = FALSE

\* a permutation placement of 3 queens, rejected
C7_Witness ==
    /\ pc = "check_n_queens_validity"
    /\ n = 3
    /\ QueenSet(board, n) = {<<0, 0>>, <<1, 2>>, <<2, 1>>}
    /\ ret = FALSE

\* the flat index of a coordinate
FlatIndex(q, m) == q[1] * m + q[2]

\* C8: round trip: get_solution_coordinates applied to the bitstring that
\* has '1' exactly at index row * n + col for (row, col) in S returns
\* exactly the elements of S, each once, in ascending flat-index order.
C8_RoundTrip ==
    pc = "get_solution_coordinates" =>
        LET S == QueenSet(board, n)
        IN  /\ bitstring = EncodeCoordinates(S, n)
            /\ Range(ret) = S
            /\ Len(ret) = Cardinality(S)
            /\ \A i \in 1..Len(ret) : \A j \in 1..Len(ret) :
                   i < j => FlatIndex(ret[i], n) < FlatIndex(ret[j], n)

\* a set of several coordinates that is not symmetric, decoded
C8_Witness ==
    /\ pc = "get_solution_coordinates"
    /\ n = 6
    /\ Len(ret) >= 5
    /\ \E q \in QueenSet(board, n) : <<q[2], q[1]>> \notin QueenSet(board, n)
    /\ Range(ret) = QueenSet(board, n)

(***************************************************************************)
(* quantum_solver.py: NQueensQuantumSolver.solve, from the sampler's       *)
(* result to the returned dict.                                            *)
(*                                                                         *)
(* A Python int is its decimal digits, least significant first (<<>> is    *)
(* 0), so that int(bitstring, 2) of a 36-character bitstring is exact.  A  *)
(* probability count / total_shots is the pair <<count, total_shots>>.     *)
(***************************************************************************)
\* 2 * d + carry on decimal digits
RECURSIVE DoublePlus(_, _)
DoublePlus(d, carry) ==
    IF d = <<>> THEN (IF carry = 0 THEN <<>> ELSE <<carry>>)
    ELSE LET v == 2 * Head(d) + carry
         IN  <<v % 10>> \o DoublePlus(Tail(d), v \div 10)

\* int(bs, 2) of the first k characters of bs
RECURSIVE IntBase2Prefix(_, _)
IntBase2Prefix(bs, k) ==
    IF k = 0 THEN <<>>
    ELSE DoublePlus(IntBase2Prefix(bs, k - 1), IF bs[k] = "1" THEN 1 ELSE 0)

\* int(bitstring, 2)
IntBase2(bs) == IntBase2Prefix(bs, Len(bs))

DigitChar(d) == <<"0", "1", "2", "3", "4", "5", "6", "7", "8", "9">>[d + 1]

\* str(i) of an int
IntStr(d) ==
    IF d = <<>> THEN <<"0">>
    ELSE [k \in 1..Len(d) |-> DigitChar(d[Len(d) + 1 - k])]

\* '0' * k
ZeroString(k) == [i \in 1..k |-> "0"]

\* d[key] = value on a dict
DictSet(d, key, value) ==
    IF \E i \in 1..Len(d) : d[i][1] = key
    THEN [i \in 1..Len(d) |-> IF d[i][1] = key THEN <<key, value>> ELSE d[i]]
    ELSE Append(d, <<key, value>>)

\* sum(counts.values())
RECURSIVE SumValues(_)
SumValues(d) == IF d = <<>> THEN 0 ELSE Head(d)[2] + SumValues(Tail(d))

\* the pairs (count, shots), shots <= 38, for which the IEEE double
\* count / shots * shots is smaller than count, so that int() of it is
\* count - 1
FloatLoss == {<<15, 22>>, <<13, 23>>, <<15, 26>>}

\* int(probability * shots) for probability = count / total_shots
IntProbabilityTimesShots(p, s) ==
    IF p[2] = s /\ <<p[1], s>> \in FloatLoss THEN p[1] - 1
    ELSE (p[1] * s) \div p[2]

\* {int(bitstring, 2): count / total_shots for bitstring, count in ...}
RECURSIVE QuasiDistsFrom(_, _, _)
QuasiDistsFrom(counts, total_shots, k) ==
    IF k = 0 THEN <<>>
    ELSE DictSet(QuasiDistsFrom(counts, total_shots, k - 1),
                 IntBase2(counts[k][1]), <<counts[k][2], total_shots>>)

\* the try block and its except branch: the inner MockSampler and the
\* StatevectorSampler give result[0].data.meas.get_counts(); the result of
\* the outer MockSampler cannot be indexed (TypeError) and yields {0: 1.0}
ResultQuasiDists(smp, got, s) ==
    IF smp = "MockSamplerQuasi" THEN << << <<>>, <<1, 1>> >> >>
    ELSE QuasiDistsFrom(got, SumValues(got), Len(got))

\* counts[str(bitstring)] = int(probability * shots)
RECURSIVE CountsFrom(_, _, _)
CountsFrom(quasi_dists, s, k) ==
    IF k = 0 THEN <<>>
    ELSE DictSet(CountsFrom(quasi_dists, s, k - 1),
                 IntStr(quasi_dists[k][1]),
                 IntProbabilityTimesShots(quasi_dists[k][2], s))

\* the loop "if count > max_count: max_count = count; most_probable = ..."
\* over the first k items; the result is <<max_count, most_probable>>
RECURSIVE ArgMaxLast(_, _, _)
ArgMaxLast(counts, default, k) ==
    IF k = 0 THEN <<0, default>>
    ELSE LET prev == ArgMaxLast(counts, default, k - 1)
         IN  IF counts[k][2] >= prev[1] THEN <<counts[k][2], counts[k][1]>>
             ELSE prev

RECURSIVE ArgMax(_, _, _)
ArgMax(counts, default, k) ==
    IF k = 0 THEN <<0, default>>
    ELSE LET prev == ArgMax(counts, default, k - 1)
         IN  IF counts[k][2] > prev[1] THEN <<counts[k][2], counts[k][1]>>
             ELSE prev

most_probable_LastOnTie(counts, num_qubits) ==
    ArgMaxLast(counts, ZeroString(num_qubits), Len(counts))[2]

most_probable(counts, num_qubits) ==
    IF counts # <<>>
    THEN ArgMax(counts, ZeroString(num_qubits), Len(counts))[2]
    ELSE ZeroString(num_qubits)

\* the dict solve returns (its circuit entries left out)
solve(m, s, smp, got) ==
    LET num_qubits == m * m
        quasi_dists == ResultQuasiDists(smp, got, s)
        counts == CountsFrom(quasi_dists, s, Len(quasi_dists))
    IN  [counts |-> counts,
         most_probable |-> most_probable(counts, num_qubits),
         shots |-> s]

(***************************************************************************)
(* The sampler.  StatevectorSampler measures num_qubits bits shots times:  *)
(* get_counts() is a dict from distinct bitstrings of n * n characters to  *)
(* positive counts that sum to shots.  MockBitArray.get_counts() is        *)
(* {'0000': shots}.                                                        *)
(***************************************************************************)
Samplers == {"StatevectorSampler", "MockSamplerPub", "MockSamplerQuasi"}

\* the sequences of k positive counts that sum to s
RECURSIVE Compositions(_, _)
Compositions(s, k) ==
    IF k = 1 THEN (IF s >= 1 THEN {<<s>>} ELSE {})
    ELSE UNION {{<<c>> \o r : r \in Compositions(s - c, k - 1)} :
                c \in 1..(s - k + 1)}

\* the measured bitstrings enumerated for a board of size m
OutcomeBitstrings(m) ==
    {EncodeCoordinates(S, m) :
        S \in {{}, {<<0, 0>>}, {<<m - 1, m - 1>>}, {<<0, 1>>, <<1, 0>>}}
              \cup (IF m >= 4 THEN {Range(queen_positions(m))} ELSE {})}
    \cup (IF m = 4 THEN {solution_state} ELSE {})

Outcomes(m, s) ==
    UNION {{[i \in 1..k |-> <<keys[i], c[i]>>] :
               keys \in {f \in [1..k -> OutcomeBitstrings(m)] :
                            \A i \in 1..k : \A j \in 1..k :
                                i # j => f[i] # f[j]},
               c \in Compositions(s, k)} :
           k \in 1..MaxOutcomes}

\* the two mock samplers defined when no sampler can be imported
MockSamplers == {"MockSamplerPub", "MockSamplerQuasi"}

\* a mock whose canned measurement is '0001' instead of '0000'
get_counts_CannedOne(smp, m, s) ==
    IF smp = "StatevectorSampler" THEN Outcomes(m, s)
    ELSE IF smp = "MockSamplerPub"
         THEN {<< <<ZeroString(3) \o <<"1">>, s>> >>}
    ELSE {<<>>}

get_counts(smp, m, s) ==
    IF smp = "StatevectorSampler" THEN Outcomes(m, s)
    ELSE IF smp = "MockSamplerPub" THEN {<< <<ZeroString(4), s>> >>}
    ELSE {<<>>}

ShotsValues == (1..MaxShots) \cup {LossyShots}

\* "count/total_shots" raises ZeroDivisionError when the counts are not
\* empty and sum to zero; the except clause does not catch it
solve_raises(smp, got) ==
    smp # "MockSamplerQuasi" /\ got # <<>> /\ SumValues(got) = 0

\* a solver of size n, a sampler class and a number of shots; shots = 0 is
\* passed to the mock samplers only
InitSolve ==
    /\ pc = "NQueensQuantumSolver"
    /\ n \in MinN..MaxN
    /\ shots \in ShotsValues \cup {0}
    /\ sampler \in (IF shots = 0 THEN MockSamplers ELSE Samplers)
    /\ measured = <<>>
    /\ board = <<>>
    /\ bitstring = <<>>
    /\ ret = "none"
    /\ env = <<>>
    /\ validation = "not run"
    /\ reported = Unreported
    /\ basis = <<>>
    /\ frame = <<>>
    /\ graph = "none"
    /\ num_colors = 0
    /\ coloring = <<>>

CallSolve ==
    /\ pc = "NQueensQuantumSolver"
    /\ \E got \in get_counts(sampler, n, shots) :
           /\ measured' = got
           /\ IF solve_raises(sampler, got)
              THEN pc' = "raised" /\ ret' = "ZeroDivisionError"
              ELSE pc' = "solve" /\ ret' = solve(n, shots, sampler, got)
    /\ UNCHANGED <<n, board, bitstring, shots, sampler, graphVars, callerVars>>

NextSolve == CallSolve

SpecSolve == InitSolve /\ [][NextSolve]_vars

(***************************************************************************)
(* Properties of solve.                                                    *)
(***************************************************************************)
\* a string of exactly m * m characters, each '0' or '1'
IsBoardBitstring(str, m) ==
    /\ Len(str) = m * m
    /\ \A i \in 1..Len(str) : str[i] \in {"0", "1"}

\* C3: the 'most_probable' value returned by solve and every key of the
\* returned 'counts' is a string of exactly n * n characters, each '0' or
\* '1', for every sampler and every measurement outcome.
C3_ResultIsBoardBitstring ==
    pc = "solve" =>
        /\ IsBoardBitstring(ret.most_probable, n)
        /\ \A i \in 1..Len(ret.counts) :
               IsBoardBitstring(ret.counts[i][1], n)

\* C4: most_probable is a most frequent outcome of the returned counts:
\* whenever some returned count is positive it is a key of counts, its
\* count is >= every count, and it is the first such key in iteration
\* order; it keeps the default '0' * (n * n) only when counts is empty or
\* all its counts are 0.
C4_MostProbableIsArgMax ==
    pc = "solve" =>
        LET counts == ret.counts
            mp == ret.most_probable
            somePositive == \E i \in 1..Len(counts) : counts[i][2] > 0
        IN  /\ somePositive =>
                   \E i \in 1..Len(counts) :
                       /\ counts[i][1] = mp
                       /\ \A j \in 1..Len(counts) :
                              counts[j][2] <= counts[i][2]
                       /\ \A j \in 1..(i - 1) :
                              counts[j][2] < counts[i][2]
            /\ (mp = ZeroString(n * n)) => ~ somePositive
            /\ ~ somePositive => (mp = ZeroString(n * n))

\* two outcomes measured equally often: the first one is reported
C4_Witness ==
    /\ pc = "solve"
    /\ sampler = "StatevectorSampler"
    /\ Len(ret.counts) = 2
    /\ ret.counts[1][2] = ret.counts[2][2]
    /\ ret.counts[1][2] > 0
    /\ ret.most_probable = ret.counts[1][1]

(***************************************************************************)
(* app_enhanced_real_time.py: check_graph_coloring_validity and the        *)
(* greedy search find_valid_coloring of simulate_graph_coloring            *)
(***************************************************************************)
check_graph_coloring_validity_NoSign(g, col) ==
    \A k \in 1..Len(g.edges) :
        LET v1 == g.edges[k][1]
            v2 == g.edges[k][2]
        IN  ~ (/\ v1 \in DOMAIN col /\ v2 \in DOMAIN col
               /\ col[v1] = col[v2])

check_graph_coloring_validity(g, col) ==
    \A k \in 1..Len(g.edges) :
        LET v1 == g.edges[k][1]
            v2 == g.edges[k][2]
        IN  ~ (/\ v1 \in DOMAIN col /\ v2 \in DOMAIN col
               /\ col[v1] = col[v2] /\ col[v1] >= 0)

used_colors_FirstEndpointOnly(edges, col, vertex) ==
    {col[edges[k][2]] :
        k \in {i \in 1..Len(edges) :
                  edges[i][1] = vertex /\ edges[i][2] \in DOMAIN col}}

\* the loop over the edges that collects the colors of the neighbours
used_colors(edges, col, vertex) ==
    {col[edges[k][2]] :
        k \in {i \in 1..Len(edges) :
                  edges[i][1] = vertex /\ edges[i][2] \in DOMAIN col}}
    \cup
    {col[edges[k][1]] :
        k \in {i \in 1..Len(edges) :
                  /\ ~ (edges[i][1] = vertex /\ edges[i][2] \in DOMAIN col)
                  /\ edges[i][2] = vertex /\ edges[i][1] \in DOMAIN col}}

\* None, and a value that is not None
None == [is_none |-> TRUE, value |-> <<>>]
Some(x) == [is_none |-> FALSE, value |-> x]

\* the color loop without its test "if color not in used_colors"
SmallestAvailable_IgnoresUsed(used, max_colors, color) ==
    IF color >= max_colors THEN -1 ELSE color

\* "for color in range(max_colors): if color not in used_colors", from
\* color on; -1 stands for the else branch of the for loop (no break)
RECURSIVE SmallestAvailable(_, _, _)
SmallestAvailable(used, max_colors, color) ==
    IF color >= max_colors THEN -1
    ELSE IF color \notin used THEN color
    ELSE SmallestAvailable(used, max_colors, color + 1)

\* coloring[vertex] = color
ColoringSet(col, vertex, color) ==
    [v \in DOMAIN col \cup {vertex} |-> IF v = vertex THEN color ELSE col[v]]

\* the loop "for vertex in range(vertices)" from vertex on
RECURSIVE GreedyFrom(_, _, _, _, _)
GreedyFrom(vertices, edges, max_colors, col, vertex) ==
    IF vertex >= vertices THEN Some(col)
    ELSE LET color == SmallestAvailable(used_colors(edges, col, vertex),
                                        max_colors, 0)
         IN  IF color = -1 THEN None
             ELSE GreedyFrom(vertices, edges, max_colors,
                             ColoringSet(col, vertex, color), vertex + 1)

\* the search with "for color in range(max_colors - 1)"
find_valid_coloring_OneColorShort(vertices, edges, max_colors) ==
    GreedyFrom(vertices, edges, max_colors - 1, <<>>, 0)

find_valid_coloring(vertices, edges, max_colors) ==
    GreedyFrom(vertices, edges, max_colors, <<>>, 0)

(***************************************************************************)
(* app_enhanced_real_time.py: the example graphs of solve_graph_coloring   *)
(***************************************************************************)
\* [(i, j) for i in range(5) for j in range(i + 1, 5)]
K5Edges ==
    << <<0, 1>>, <<0, 2>>, <<0, 3>>, <<0, 4>>, <<1, 2>>, <<1, 3>>, <<1, 4>>,
       <<2, 3>>, <<2, 4>>, <<3, 4>> >>

graphs ==
    [name \in {"Triangle (K3)", "Square Cycle", "Pentagon Cycle",
               "Hexagon Cycle", "Complete K4", "Complete K5",
               "Bipartite K2,3", "Wheel W4", "Star S5", "Complex Mixed"} |->
        CASE name = "Triangle (K3)" ->
               [vertices |-> 3, chromatic |-> 3,
                edges |-> << <<0, 1>>, <<1, 2>>, <<2, 0>> >>]
          [] name = "Square Cycle" ->
               [vertices |-> 4, chromatic |-> 2,
                edges |-> << <<0, 1>>, <<1, 2>>, <<2, 3>>, <<3, 0>> >>]
          [] name = "Pentagon Cycle" ->
               [vertices |-> 5, chromatic |-> 3,
                edges |-> << <<0, 1>>, <<1, 2>>, <<2, 3>>, <<3, 4>>,
                             <<4, 0>> >>]
          [] name = "Hexagon Cycle" ->
               [vertices |-> 6, chromatic |-> 2,
                edges |-> << <<0, 1>>, <<1, 2>>, <<2, 3>>, <<3, 4>>,
                             <<4, 5>>, <<5, 0>> >>]
          [] name = "Complete K4" ->
               [vertices |-> 4, chromatic |-> 4,
                edges |-> << <<0, 1>>, <<0, 2>>, <<0, 3>>, <<1, 2>>,
                             <<1, 3>>, <<2, 3>> >>]
          [] name = "Complete K5" ->
               [vertices |-> 5, chromatic |-> 5, edges |-> K5Edges]
          [] name = "Bipartite K2,3" ->
               [vertices |-> 5, chromatic |-> 2,
                edges |-> << <<0, 2>>, <<0, 3>>, <<0, 4>>, <<1, 2>>,
                             <<1, 3>>, <<1, 4>> >>]
          [] name = "Wheel W4" ->
               [vertices |-> 5, chromatic |-> 4,
                edges |-> << <<0, 1>>, <<1, 2>>, <<2, 3>>, <<3, 4>>,
                             <<4, 1>>, <<0, 2>>, <<0, 3>>, <<0, 4>> >>]
          [] name = "Star S5" ->
               [vertices |-> 6, chromatic |-> 2,
                edges |-> << <<0, 1>>, <<0, 2>>, <<0, 3>>, <<0, 4>>,
                             <<0, 5>> >>]
          [] OTHER ->
               [vertices |-> 6, chromatic |-> 3,
                edges |-> << <<0, 1>>, <<1, 2>>, <<2, 3>>, <<3, 4>>,
                             <<4, 5>>, <<5, 0>>, <<0, 3>>, <<1, 4>> >>]]

\* simulate_graph_coloring: graph.get('chromatic', num_colors)
chromatic_number(g, k) == IF "chromatic" \in DOMAIN g THEN g.chromatic ELSE k

\* never answering "Impossible"
AnswersImpossible_Never(g, k) == FALSE

\* simulate_graph_coloring: the test that makes it answer with the single
\* state "Impossible: Need at least <chromatic_number> colors!"
AnswersImpossible(g, k) == k < chromatic_number(g, k)

(***************************************************************************)
(* Inputs of the graph-coloring functions: the example graphs, and every   *)
(* graph on at most MaxVertices vertices whose edge list holds at most     *)
(* MaxEdges distinct pairs of vertex indices (either orientation,          *)
(* self-loops included), listed in ascending order.                        *)
(***************************************************************************)
PairIndex(e, vertices) == e[1] * vertices + e[2]

EdgeLists(vertices) ==
    UNION {{f \in [1..k -> (0..(vertices - 1)) \X (0..(vertices - 1))] :
               \A i \in 1..(k - 1) :
                   PairIndex(f[i], vertices) < PairIndex(f[i + 1], vertices)} :
           k \in 0..MaxEdges}

SmallGraphs ==
    UNION {{[vertices |-> v, edges |-> e] : e \in EdgeLists(v)} :
           v \in 1..MaxVertices}

ExampleGraphs == Range(graphs)

Graphs == SmallGraphs \cup ExampleGraphs

\* the partial colorings of the vertices with colors -1 (uncolored), 0, 1
Colorings(vertices) ==
    UNION {[D -> -1..1] : D \in SUBSET (0..(vertices - 1))}

\* the checker applied to a graph and a coloring
InitChecker ==
    /\ pc = "input"
    /\ graph \in Graphs
    /\ coloring \in Colorings(graph.vertices)
    /\ num_colors = 0
    /\ ret = "none"
    /\ env = <<>>
    /\ validation = "not run"
    /\ reported = Unreported
    /\ basis = <<>>
    /\ frame = <<>>
    /\ n = 0
    /\ board = <<>>
    /\ bitstring = <<>>
    /\ shots = 0
    /\ sampler = "none"
    /\ measured = <<>>

CallCheckGraphColoringValidity ==
    /\ pc = "input"
    /\ pc' = "check_graph_coloring_validity"
    /\ ret' = check_graph_coloring_validity(graph, coloring)
    /\ UNCHANGED <<graphVars, queensVars, callerVars>>

NextChecker == CallCheckGraphColoringValidity

SpecChecker == InitChecker /\ [][NextChecker]_vars

(***************************************************************************)
(* app_enhanced_real_time.py: simulate_graph_coloring.  A state is the     *)
(* dict appended to states; its description is the text of the f-string    *)
(* and the values formatted into it.                                       *)
(***************************************************************************)
State(col, text, args, is_valid) ==
    [coloring |-> col, description |-> [text |-> text, args |-> args],
     is_valid |-> is_valid]

\* Step 1: the loop over the edges that collects the colors of the
\* neighbours already in temp_coloring
step1_used_colors(edges, temp, vertex) ==
    {temp[edges[k][2]] :
        k \in {i \in 1..Len(edges) :
                  edges[i][1] = vertex /\ edges[i][2] \in DOMAIN temp}}
    \cup
    {temp[edges[k][1]] :
        k \in {i \in 1..Len(edges) :
                  /\ ~ (edges[i][1] = vertex /\ edges[i][2] \in DOMAIN temp)
                  /\ edges[i][2] = vertex /\ edges[i][1] \in DOMAIN temp}}

\* Step 1: "for vertex in range(vertices)" from vertex on; forced is the
\* set of vertices for which the else branch of the color loop ran
RECURSIVE Step1From(_, _, _, _, _, _)
Step1From(g, k, temp, vertex, states, forced) ==
    IF vertex >= g.vertices
    THEN [states |-> states, temp_coloring |-> temp, forced |-> forced]
    ELSE LET used == step1_used_colors(g.edges, temp, vertex)
             color == SmallestAvailable(used, k, 0)
             temp2 == ColoringSet(temp, vertex,
                                  IF color = -1 THEN 0 ELSE color)
         IN  Step1From(g, k, temp2, vertex + 1,
                 Append(states,
                        State(temp2, "Coloring vertex (color )",
                              <<vertex, temp2[vertex]>>,
                              check_graph_coloring_validity(g, temp2))),
                 IF color = -1 THEN forced \cup {vertex} ELSE forced)

Step1(g, k) == Step1From(g, k, <<>>, 0, <<>>, {})

\* min(2, num_colors)
Min2(k) == IF k < 2 THEN k ELSE 2

\* Step 2: the two "Testing configuration" states
Step2(g, k) ==
    [a \in 1..2 |->
        LET attempt == a - 1
            invalid_coloring ==
                [v \in 0..(g.vertices - 1) |-> (v + attempt) % Min2(k)]
        IN  State(invalid_coloring, "Testing configuration",
                  <<attempt + 1>>,
                  check_graph_coloring_validity(g, invalid_coloring))]

\* Step 3: "if valid_coloring:" is false for None and for the empty dict
Step3(g, k, temp) ==
    LET valid_coloring == find_valid_coloring(g.vertices, g.edges, k)
    IN  IF ~ valid_coloring.is_none /\ DOMAIN valid_coloring.value # {}
        THEN << State(valid_coloring.value, "Valid -coloring found!", <<k>>,
                      TRUE) >>
        ELSE << State(temp, "No valid -coloring exists", <<k>>, FALSE) >>

simulate_graph_coloring(g, k) ==
    IF AnswersImpossible(g, k)
    THEN << State(<<>>, "Impossible: Need at least colors!",
                  <<chromatic_number(g, k)>>, FALSE) >>
    ELSE LET s1 == Step1(g, k)
         IN  s1.states
             \o (IF ~ check_graph_coloring_validity(g, s1.temp_coloring)
                 THEN Step2(g, k) ELSE <<>>)
             \o Step3(g, k, s1.temp_coloring)

CallSimulateGraphColoring ==
    /\ pc = "input"
    /\ pc' = "simulate_graph_coloring"
    /\ ret' = simulate_graph_coloring(graph, num_colors)
    /\ UNCHANGED <<graphVars, queensVars, callerVars>>

\* the greedy search applied to a graph and a number of colors
InitColoring ==
    /\ pc = "input"
    /\ graph \in Graphs
    /\ num_colors \in 1..MaxColors
    /\ coloring = <<>>
    /\ ret = "none"
    /\ env = <<>>
    /\ validation = "not run"
    /\ reported = Unreported
    /\ basis = <<>>
    /\ frame = <<>>
    /\ n = 0
    /\ board = <<>>
    /\ bitstring = <<>>
    /\ shots = 0
    /\ sampler = "none"
    /\ measured = <<>>

CallFindValidColoring ==
    /\ pc = "input"
    /\ pc' = "find_valid_coloring"
    /\ ret' = find_valid_coloring(graph.vertices, graph.edges, num_colors)
    /\ UNCHANGED <<graphVars, queensVars, callerVars>>

NextColoring == CallFindValidColoring \/ CallSimulateGraphColoring

SpecColoring == InitColoring /\ [][NextColoring]_vars

HasConflict(g, col) ==
    \E e \in Range(g.edges) :
        /\ e[1] \in DOMAIN col
        /\ e[2] \in DOMAIN col
        /\ col[e[1]] = col[e[2]]
        /\ col[e[1]] >= 0

\* C9: check_graph_coloring_validity returns False if and only if some
\* edge has both endpoints present in the coloring map with equal colors
\* and that color >= 0; so it returns True on an edgeless graph, True for
\* the empty coloring, and two adjacent vertices both marked -1 are no
\* conflict.
C9_CheckerIffNoConflict ==
    pc = "check_graph_coloring_validity" =>
        /\ (ret = FALSE) <=> HasConflict(graph, coloring)
        /\ (graph.edges = <<>> => ret = TRUE)
        /\ (DOMAIN coloring = {} => ret = TRUE)
        /\ ((\A v \in DOMAIN coloring : coloring[v] = -1) => ret = TRUE)

\* an edge whose endpoints are both marked -1, and no other conflict
C9_Witness ==
    /\ pc = "check_graph_coloring_validity"
    /\ \E e \in Range(graph.edges) :
           /\ e[1] # e[2]
           /\ e[1] \in DOMAIN coloring
           /\ e[2] \in DOMAIN coloring
           /\ coloring[e[1]] = -1
           /\ coloring[e[2]] = -1
    /\ \E v \in DOMAIN coloring : coloring[v] >= 0
    /\ ret = TRUE

\* u and v are the two endpoints of some edge, in either orientation
Adjacent(g, u, v) == <<u, v>> \in Range(g.edges) \/ <<v, u>> \in Range(g.edges)

\* the colors of the neighbours of v that are colored before v
EarlierNeighbourColors(g, col, v) ==
    {col[u] : u \in {w \in 0..(v - 1) : Adjacent(g, w, v)}}

\* col gives each vertex of its domain 0..(k - 1) the smallest color below
\* K that no earlier neighbour has
IsGreedy(g, K, col, k) ==
    \A v \in 0..(k - 1) :
        /\ col[v] \in 0..(K - 1)
        /\ col[v] \notin EarlierNeighbourColors(g, col, v)
        /\ \A c \in 0..(col[v] - 1) : c \in EarlierNeighbourColors(g, col, v)

\* the greedy coloring of the vertices before v exists and the earlier
\* neighbours of v use all K colors
Stuck(g, K, v) ==
    \E col \in [0..(v - 1) -> 0..(K - 1)] :
        /\ IsGreedy(g, K, col, v)
        /\ EarlierNeighbourColors(g, col, v) = 0..(K - 1)

\* C10: find_valid_coloring gives the vertices, in index order, the
\* smallest color in 0..K-1 not used by an already-colored neighbour
\* (either orientation of the edge); it returns None exactly when it
\* reaches a vertex whose already-colored neighbours use all K colors, and
\* otherwise a total assignment over all vertices.
C10_GreedyColoring ==
    pc = "find_valid_coloring" =>
        /\ ret.is_none <=>
               (\E v \in 0..(graph.vertices - 1) : Stuck(graph, num_colors, v))
        /\ ~ ret.is_none =>
               /\ DOMAIN ret.value = 0..(graph.vertices - 1)
               /\ IsGreedy(graph, num_colors, ret.value, graph.vertices)

\* a graph on which the search gets stuck only at its last vertex, after
\* coloring a neighbour through an edge listed as (later, earlier)
C10_Witness ==
    /\ pc = "find_valid_coloring"
    /\ ret.is_none
    /\ graph.vertices >= 3
    /\ num_colors >= 2
    /\ Stuck(graph, num_colors, graph.vertices - 1)
    /\ \E e \in Range(graph.edges) : e[1] > e[2]

(***************************************************************************)
(* Soundness of the greedy search against the checker.                     *)
(***************************************************************************)
\* the total assignments of colors 0..K-1 that give the two endpoints of
\* every edge different colors
ProperColorings(g, K) ==
    {col \in [0..(g.vertices - 1) -> 0..(K - 1)] :
        \A e \in Range(g.edges) : col[e[1]] # col[e[2]]}

Colorable(g, K) == ProperColorings(g, K) # {}

\* no edge joins a vertex to itself
LoopFree(g) == \A e \in Range(g.edges) : e[1] # e[2]

\* what is returned is None when no proper coloring exists, and otherwise a
\* total assignment of colors 0..K-1 that the checker accepts
SoundResult(g, K, r) ==
    /\ ~ Colorable(g, K) => r.is_none
    /\ ~ r.is_none =>
           /\ DOMAIN r.value = 0..(g.vertices - 1)
           /\ \A v \in DOMAIN r.value : r.value[v] \in 0..(K - 1)
           /\ check_graph_coloring_validity(g, r.value)

\* C11 as stated: for every graph (any edge list of pairs of vertex
\* indices) and every K in 1..5, find_valid_coloring returns None when no
\* proper K-coloring exists; every coloring it returns is total, uses
\* colors 0..K-1 and is accepted by check_graph_coloring_validity.
C11_GreedySound ==
    pc = "find_valid_coloring" => SoundResult(graph, num_colors, ret)

\* C11 amended: the same, for every edge list whose pairs join two
\* distinct vertices (an edge from a vertex to itself is skipped by the
\* search but rejected by the checker).
C11_GreedySoundLoopFree ==
    (pc = "find_valid_coloring" /\ LoopFree(graph)) =>
        SoundResult(graph, num_colors, ret)

\* a graph without self-loops that has edges and no proper coloring with
\* two or more colors, on which the search returned None
C11_Witness ==
    /\ pc = "find_valid_coloring"
    /\ LoopFree(graph)
    /\ num_colors >= 2
    /\ ~ Colorable(graph, num_colors)
    /\ ret.is_none

(***************************************************************************)
(* The ten example graphs and their declared chromatic numbers.            *)
(***************************************************************************)
\* C12: for each of the ten named example graphs, with K equal to its
\* declared 'chromatic', find_valid_coloring returns a coloring (not None)
\* that check_graph_coloring_validity accepts; in particular for Square
\* Cycle, Hexagon Cycle, Bipartite K2,3 and Star S5 with K = 2.
C12_ExamplesColoredAtChromatic ==
    /\ (pc = "find_valid_coloring" /\ graph \in ExampleGraphs
            /\ num_colors = graph.chromatic) =>
           /\ ~ ret.is_none
           /\ check_graph_coloring_validity(graph, ret.value)
    /\ \A name \in {"Square Cycle", "Hexagon Cycle", "Bipartite K2,3",
                     "Star S5"} :
           (pc = "find_valid_coloring" /\ graph = graphs[name]
               /\ num_colors = 2) =>
              /\ ~ ret.is_none
              /\ check_graph_coloring_validity(graph, ret.value)

\* the Hexagon Cycle colored with its two declared colors
C12_Witness ==
    /\ pc = "find_valid_coloring"
    /\ graph = graphs["Hexagon Cycle"]
    /\ num_colors = 2
    /\ ~ ret.is_none
    /\ ret.value[5] = 1

\* C13: for each of the ten named example graphs the declared 'chromatic'
\* is the true chromatic number (a proper coloring with 'chromatic' colors
\* exists and none with 'chromatic' - 1), so simulate_graph_coloring
\* answers "Impossible" only for color counts with which no proper coloring
\* exists.
C13_ChromaticIsTrue ==
    graph \in ExampleGraphs =>
        /\ Colorable(graph, graph.chromatic)
        /\ ~ Colorable(graph, graph.chromatic - 1)
        /\ AnswersImpossible(graph, num_colors) =>
               ~ Colorable(graph, num_colors)

(***************************************************************************)
(* quantum_solver.py: the import statements at the top of the module.      *)
(* env gives the outcome of each import statement if it is executed: it    *)
(* succeeds, raises ImportError (the module or the name is missing), or    *)
(* raises some other exception.                                            *)
(***************************************************************************)
\* lines 7-10, outside any try
TopImports ==
    {"numpy", "qiskit", "qiskit.circuit.library", "qiskit.visualization"}

\* lines 16, 21, 25, 29, each inside its own try, in the order tried
SamplerImports ==
    <<"qiskit.primitives.StatevectorSampler", "qiskit.algorithms.Sampler",
      "qiskit.Sampler", "qiskit.primitives.Sampler">>

\* the class the name Sampler is bound to when the k-th import succeeds
SamplerClasses ==
    <<"StatevectorSampler", "qiskit.algorithms.Sampler", "qiskit.Sampler",
      "qiskit.primitives.Sampler">>

Envs ==
    {t @@ u : t \in [TopImports -> {"ok", "ImportError"}],
              u \in [Range(SamplerImports) ->
                         {"ok", "ImportError", "Exception"}]}

\* the nested try statements from the k-th sampler import on
RECURSIVE SamplerBinding(_, _)
SamplerBinding(e, k) ==
    IF k > Len(SamplerImports) THEN "MockSamplerPub"
    ELSE IF e[SamplerImports[k]] = "ok" THEN SamplerClasses[k]
    ELSE IF e[SamplerImports[k]] = "ImportError" THEN SamplerBinding(e, k + 1)
    ELSE "MockSamplerQuasi"

\* executing the module: the exception that propagates, if any, and the
\* binding of the name Sampler
import_quantum_solver(e) ==
    IF \E name \in TopImports : e[name] = "ImportError"
    THEN [raised |-> "ImportError", Sampler |-> "unbound"]
    ELSE [raised |-> "none", Sampler |-> SamplerBinding(e, 1)]

InitImport ==
    /\ pc = "input"
    /\ env \in Envs
    /\ sampler = "unbound"
    /\ ret = "none"
    /\ validation = "not run"
    /\ reported = Unreported
    /\ basis = <<>>
    /\ frame = <<>>
    /\ n = 0
    /\ board = <<>>
    /\ bitstring = <<>>
    /\ shots = 0
    /\ measured = <<>>
    /\ graph = "none"
    /\ num_colors = 0
    /\ coloring = <<>>

\* "import quantum_solver"
ImportQuantumSolver ==
    /\ pc = "input"
    /\ LET m == import_quantum_solver(env)
       IN  /\ pc' = IF m.raised = "none" THEN "quantum_solver" ELSE m.raised
           /\ sampler' = m.Sampler
    /\ UNCHANGED <<n, board, bitstring, ret, shots, measured, env,
                   validation, reported, basis, frame, graphVars>>

\* app_enhanced_real_time.py: "from quantum_solver import
\* NQueensQuantumSolver" inside try, "except ImportError: st.error(...);
\* st.stop()"
AppImportSolver ==
    /\ pc = "input"
    /\ LET m == import_quantum_solver(env)
       IN  /\ pc' = IF m.raised = "none" THEN "app" ELSE "st.stop"
           /\ sampler' = m.Sampler
    /\ UNCHANGED <<n, board, bitstring, ret, shots, measured, env,
                   validation, reported, basis, frame, graphVars>>

NextImport == ImportQuantumSolver \/ AppImportSolver

SpecImport == InitImport /\ [][NextImport]_vars

\* every import from the quantum-circuit library raises ImportError
LibraryMissing(e) ==
    /\ \A name \in TopImports \ {"numpy"} : e[name] = "ImportError"
    /\ \A k \in 1..Len(SamplerImports) : e[SamplerImports[k]] = "ImportError"

\* the library is there and none of the four sampler imports is
SamplerApiMissing(e) ==
    /\ \A name \in TopImports : e[name] = "ok"
    /\ \A k \in 1..Len(SamplerImports) : e[SamplerImports[k]] = "ImportError"

\* C15: importing quantum_solver never fails because the quantum-circuit
\* library, or its sampler API, is missing: in every such case the import
\* completes with Sampler bound to a mock sampler and no ImportError
\* reaches the importer.
C15_ImportNeverFails ==
    /\ (pc \in {"quantum_solver", "ImportError"} /\ env["numpy"] = "ok"
            /\ (LibraryMissing(env) \/ SamplerApiMissing(env))) =>
           (pc = "quantum_solver" /\ sampler \in MockSamplers)
    /\ (pc \in {"app", "st.stop"} /\ env["numpy"] = "ok"
            /\ (LibraryMissing(env) \/ SamplerApiMissing(env))) =>
           (pc = "app" /\ sampler \in MockSamplers)

(***************************************************************************)
(* The callers that interpret the dict returned by solve: demo.main and    *)
(* the results panel of solve_n_queens.  validation records what the       *)
(* caller learned from verify_solution, reported the coordinates it has    *)
(* shown.                                                                  *)
(***************************************************************************)
\* demo.main: is_valid = solver.verify_solution(result['most_probable'])
DemoVerify ==
    /\ pc = "solve"
    /\ pc' = "demo.verified"
    /\ validation' = IF verify_solution(ret.most_probable, n)
                     THEN "valid" ELSE "invalid"
    /\ UNCHANGED <<n, board, bitstring, ret, solveVars, env, reported,
                   basis, frame, graphVars>>

\* demo.main: "if is_valid:" prints the decoded queen positions
DemoReport ==
    /\ pc = "demo.verified"
    /\ validation = "valid"
    /\ pc' = "demo.reported"
    /\ reported' = [is_none |-> FALSE,
                    value |-> get_solution_coordinates(ret.most_probable, n)]
    /\ UNCHANGED <<n, board, bitstring, ret, solveVars, env, validation,
                   basis, frame, graphVars>>

\* demo.main: "else:" prints that no valid solution was found
DemoNoSolution ==
    /\ pc = "demo.verified"
    /\ validation # "valid"
    /\ pc' = "demo.no valid solution"
    /\ UNCHANGED <<n, board, bitstring, ret, solveVars, env, validation,
                   reported, basis, frame, graphVars>>

\* solve_n_queens: the positions substituted when none were decoded
panel_known_positions(m) ==
    IF m = 4 THEN << <<1, 0>>, <<3, 1>>, <<0, 2>>, <<2, 3>> >>
    ELSE IF m = 5 THEN << <<0, 0>>, <<2, 1>>, <<4, 2>>, <<1, 3>>, <<3, 4>> >>
    ELSE IF m = 6 THEN
        << <<1, 0>>, <<3, 1>>, <<5, 2>>, <<0, 3>>, <<2, 4>>, <<4, 5>> >>
    ELSE IF m = 8 THEN
        << <<0, 0>>, <<2, 1>>, <<5, 2>>, <<7, 3>>, <<1, 4>>, <<3, 5>>,
           <<6, 6>>, <<4, 7>> >>
    ELSE [i \in 1..m |-> <<i - 1, (2 * (i - 1)) % m>>]

\* solve_n_queens: the coordinates shown in the "Queen Positions" box
panel_coordinates(str, m) ==
    LET coordinates == get_solution_coordinates(str, m)
    IN  IF coordinates = <<>> THEN panel_known_positions(m) ELSE coordinates

\* solve_n_queens: the results panel shows "Solution Valid: Yes" and the
\* queen positions
PanelReport ==
    /\ pc = "solve"
    /\ pc' = "solve_n_queens.reported"
    /\ reported' = [is_none |-> FALSE,
                    value |-> panel_coordinates(ret.most_probable, n)]
    /\ UNCHANGED <<n, board, bitstring, ret, solveVars, env, validation,
                   basis, frame, graphVars>>

NextCallers ==
    CallSolve \/ DemoVerify \/ DemoReport \/ DemoNoSolution \/ PanelReport

SpecCallers == InitSolve /\ [][NextCallers]_vars

\* C16: in every caller that interprets a solve result, coordinates are
\* decoded from 'most_probable' and reported only after the bitstring was
\* checked by the validator and found valid; for an invalid bitstring no
\* coordinates are reported.
C16_ReportedOnlyAfterValid ==
    ~ reported.is_none =>
        /\ validation = "valid"
        /\ reported.value = get_solution_coordinates(ret.most_probable, n)

(***************************************************************************)
(* quantum_solver.py: the circuits built by create_simplified_oracle,      *)
(* create_diffuser and create_constraint_oracle.  A circuit is its number  *)
(* of qubits and the list of its gate calls in program order; a gate call  *)
(* is the method name and the list of qubit indices it is given (for mcx   *)
(* the controls followed by the target, for cx the control and the         *)
(* target).                                                                *)
(***************************************************************************)
Gate(name, qubits) == [name |-> name, qubits |-> qubits]

\* list(range(k))
RangeList(k) == [i \in 1..k |-> i - 1]

\* [i for i, bit in enumerate(str) if bit == '1']
OnesOf(str) == SelectSeq(RangeList(Len(str)), LAMBDA i : str[i + 1] = "1")

\* h(target); mcx(controls, target); h(target)
HMcxH(controls, target) ==
    << Gate("h", <<target>>), Gate("mcx", controls \o <<target>>),
       Gate("h", <<target>>) >>

\* an oracle that also builds the n == 4 gates for every larger board
create_simplified_oracle_FromFour(m) ==
    LET num_qubits == m * m
    IN  [num_qubits |-> num_qubits,
         gates |->
            IF m >= 4
            THEN <<Gate("x", OnesOf(solution_state))>>
                 \o HMcxH(RangeList(num_qubits - 1), num_qubits - 1)
                 \o <<Gate("x", OnesOf(solution_state))>>
            ELSE <<>>]

create_simplified_oracle(m) ==
    LET num_qubits == m * m
    IN  [num_qubits |-> num_qubits,
         gates |->
            IF m = 3 THEN <<>>
            ELSE IF m = 4
            THEN <<Gate("x", OnesOf(solution_state))>>
                 \o HMcxH(RangeList(num_qubits - 1), num_qubits - 1)
                 \o <<Gate("x", OnesOf(solution_state))>>
            ELSE <<>>]

\* a diffuser whose X gates act on the last qubit only
create_diffuser_XOnLast(m) ==
    LET num_qubits == m * m
    IN  [num_qubits |-> num_qubits,
         gates |->
            <<Gate("h", RangeList(num_qubits)), Gate("x", <<num_qubits - 1>>)>>
            \o HMcxH(RangeList(num_qubits - 1), num_qubits - 1)
            \o <<Gate("x", <<num_qubits - 1>>),
                 Gate("h", RangeList(num_qubits))>>]

create_diffuser(m) ==
    LET num_qubits == m * m
    IN  [num_qubits |-> num_qubits,
         gates |->
            <<Gate("h", RangeList(num_qubits)), Gate("x", RangeList(num_qubits))>>
            \o HMcxH(RangeList(num_qubits - 1), num_qubits - 1)
            \o <<Gate("x", RangeList(num_qubits)),
                 Gate("h", RangeList(num_qubits))>>]

\* self.ancilla_qubits
ancilla_qubits(m) == 2 * m + 2 * (2 * m - 1)

\* the squares row * n + col walked from (row, col) down and to the right
RECURSIVE diag_qubits(_, _, _)
diag_qubits(m, row, col) ==
    IF row < m /\ col < m
    THEN <<row * m + col>> \o diag_qubits(m, row + 1, col + 1)
    ELSE <<>>

\* the two loops over start_row and start_col from the t-th start square
\* on: one group per diagonal of more than one square, with its ancilla
RECURSIVE DiagonalGroups(_, _, _, _)
DiagonalGroups(m, t, diag_ancilla_start, diag_idx) ==
    IF t >= m * m THEN <<>>
    ELSE LET qubits == diag_qubits(m, t \div m, t % m)
         IN  IF Len(qubits) > 1
             THEN <<[qubits |-> qubits,
                     ancilla_idx |-> diag_ancilla_start + diag_idx]>>
                  \o DiagonalGroups(m, t + 1, diag_ancilla_start, diag_idx + 1)
             ELSE DiagonalGroups(m, t + 1, diag_ancilla_start, diag_idx)

\* the groups of board qubits create_constraint_oracle accumulates, each
\* into one ancilla, in program order
constraint_groups(m) ==
    LET row_ancilla_start == m * m
        col_ancilla_start == row_ancilla_start + m
        diag_ancilla_start == col_ancilla_start + m
    IN  [row \in 1..m |->
            [qubits |-> [col \in 1..m |-> (row - 1) * m + (col - 1)],
             ancilla_idx |-> row_ancilla_start + (row - 1)]]
        \o [col \in 1..m |->
              [qubits |-> [row \in 1..m |-> (row - 1) * m + (col - 1)],
               ancilla_idx |-> col_ancilla_start + (col - 1)]]
        \o (IF m <= 4 THEN DiagonalGroups(m, 0, diag_ancilla_start, 0)
            ELSE <<>>)

\* the gates of one group: count, flip the phase, reset the ancilla
GroupGates(g) ==
    LET count == [k \in 1..Len(g.qubits) |->
                     Gate("cx", <<g.qubits[k], g.ancilla_idx>>)]
    IN  count
        \o <<Gate("x", <<g.ancilla_idx>>)>>
        \o HMcxH(<<g.ancilla_idx>>, g.ancilla_idx)
        \o <<Gate("x", <<g.ancilla_idx>>)>>
        \o count

RECURSIVE AllGroupGates(_)
AllGroupGates(groups) ==
    IF groups = <<>> THEN <<>>
    ELSE GroupGates(Head(groups)) \o AllGroupGates(Tail(groups))

create_constraint_oracle(m) ==
    [num_qubits |-> m * m + ancilla_qubits(m),
     num_clbits |-> m * m,
     gates |-> AllGroupGates(constraint_groups(m))]

(***************************************************************************)
(* What a list of gates does to a basis state of the qubits.  X flips the  *)
(* listed bits.  H on the target, MCX, H on the target is a controlled Z:  *)
(* it negates the amplitude when the controls and the target are all 1     *)
(* and changes no bit.  Any other gate leaves the set of basis states      *)
(* (basis |-> FALSE).                                                      *)
(***************************************************************************)
IsHMcxH(gates, k) ==
    /\ k + 2 <= Len(gates)
    /\ gates[k].name = "h"
    /\ gates[k + 1].name = "mcx"
    /\ gates[k + 2] = gates[k]
    /\ Len(gates[k].qubits) = 1
    /\ gates[k + 1].qubits[Len(gates[k + 1].qubits)] = gates[k].qubits[1]

RECURSIVE RunBasis(_, _, _)
RunBasis(gates, k, st) ==
    IF k > Len(gates) THEN st
    ELSE IF gates[k].name = "x"
    THEN RunBasis(gates, k + 1,
             [st EXCEPT !.bits =
                 [q \in DOMAIN st.bits |->
                     IF q \in Range(gates[k].qubits) THEN 1 - st.bits[q]
                     ELSE st.bits[q]]])
    ELSE IF IsHMcxH(gates, k)
    THEN RunBasis(gates, k + 3,
             [st EXCEPT !.phase =
                 IF \A q \in Range(gates[k + 1].qubits) : st.bits[q] = 1
                 THEN -st.phase ELSE st.phase])
    ELSE [st EXCEPT !.basis = FALSE]

OnBasis(gates, b) == RunBasis(gates, 1, [bits |-> b, phase |-> 1, basis |-> TRUE])

(***************************************************************************)
(* Inputs of the circuit builders: a board size and a basis state of the   *)
(* n * n board qubits.  Every basis state is enumerated up to the width of *)
(* the hard-coded oracle; above it, the states within MaxToggle bit flips  *)
(* of all zeros and of all ones.                                           *)
(***************************************************************************)
BasisStates(m) ==
    LET Q == 0..(m * m - 1)
    IN  IF m * m <= Len(solution_state) THEN [Q -> {0, 1}]
        ELSE {[q \in Q |-> IF q \in S THEN 1 - v ELSE v] :
                 S \in SubsetsUpTo(Q, MaxToggle), v \in {0, 1}}

InitCircuit ==
    /\ pc = "NQueensQuantumSolver"
    /\ n \in MinN..MaxN
    /\ basis \in BasisStates(n)
    /\ frame = <<>>
    /\ ret = "none"
    /\ env = <<>>
    /\ validation = "not run"
    /\ reported = Unreported
    /\ board = <<>>
    /\ bitstring = <<>>
    /\ shots = 0
    /\ sampler = "none"
    /\ measured = <<>>
    /\ graph = "none"
    /\ num_colors = 0
    /\ coloring = <<>>

CallCreateSimplifiedOracle ==
    /\ pc = "NQueensQuantumSolver"
    /\ pc' = "create_simplified_oracle"
    /\ ret' = create_simplified_oracle(n)
    /\ UNCHANGED <<graphVars, queensVars, callerVars>>

CallCreateDiffuser ==
    /\ pc = "NQueensQuantumSolver"
    /\ pc' = "create_diffuser"
    /\ ret' = create_diffuser(n)
    /\ UNCHANGED <<graphVars, queensVars, callerVars>>

CallCreateConstraintOracle ==
    /\ pc = "NQueensQuantumSolver"
    /\ pc' = "create_constraint_oracle"
    /\ ret' = create_constraint_oracle(n)
    /\ UNCHANGED <<graphVars, queensVars, callerVars>>

NextCircuit ==
    \/ CallCreateSimplifiedOracle
    \/ CallCreateDiffuser
    \/ CallCreateConstraintOracle

SpecCircuit == InitCircuit /\ [][NextCircuit]_vars

(***************************************************************************)
(* Properties of the circuit builders.                                     *)
(***************************************************************************)
\* the basis state in which qubit i is 1 exactly when solution_state[i]
\* is '1'
SolutionBasis ==
    [q \in 0..(Len(solution_state) - 1) |->
        IF solution_state[q + 1] = "1" THEN 1 ELSE 0]

\* C17: as a map on basis states of the 16 board qubits, the n = 4
\* simplified oracle changes no bit and flips the phase of exactly one
\* basis state, the one in which qubit i is 1 exactly when
\* solution_state[i] == '1'.
C17_OracleMarksSolutionState ==
    (pc = "create_simplified_oracle" /\ n = 4) =>
        LET r == OnBasis(ret.gates, basis)
        IN  /\ r.basis
            /\ r.bits = basis
            /\ r.phase = -1 <=> basis = SolutionBasis

\* C18: create_diffuser builds H on all qubits; X on all qubits; H, MCX
\* with all other qubits as controls, H on the last qubit; X on all
\* qubits; H on all qubits, in that order.  On basis states the block
\* between the two layers of H changes no bit and flips the phase of
\* exactly the all-zeros state.
C18_DiffuserOrderAndInnerBlock ==
    pc = "create_diffuser" =>
        LET num_qubits == n * n
            every == RangeList(num_qubits)
            last == num_qubits - 1
            g == ret.gates
            r == OnBasis(SubSeq(g, 2, 6), basis)
        IN  /\ ret.num_qubits = num_qubits
            /\ g = << [name |-> "h", qubits |-> every],
                      [name |-> "x", qubits |-> every],
                      [name |-> "h", qubits |-> <<last>>],
                      [name |-> "mcx", qubits |-> every],
                      [name |-> "h", qubits |-> <<last>>],
                      [name |-> "x", qubits |-> every],
                      [name |-> "h", qubits |-> every] >>
            /\ r.basis
            /\ r.bits = basis
            /\ r.phase = -1 <=> (\A q \in DOMAIN basis : basis[q] = 0)

\* the diffuser of the largest board applied to the all-zeros state
C18_Witness ==
    /\ pc = "create_diffuser"
    /\ n = MaxN
    /\ \A q \in DOMAIN basis : basis[q] = 0
    /\ OnBasis(SubSeq(ret.gates, 2, 6), basis).phase = -1

CheckedGroups(circuit, m) ==
    {{q \in 0..(m * m - 1) :
         \E k \in 1..Len(circuit.gates) :
             circuit.gates[k] = [name |-> "cx", qubits |-> <<q, a>>]} :
        a \in (m * m)..(circuit.num_qubits - 1)}

\* C20: create_constraint_oracle checks all N-Queens constraints: for every
\* n in 2..6 and every pair of distinct squares that share a row, a column
\* or a diagonal (either direction), some checked group of board qubits
\* contains both squares.
C20_AllConstraintsChecked ==
    pc = "create_constraint_oracle" =>
        LET groups == CheckedGroups(ret, n)
        IN  \A p \in Cells(n) : \A q \in Cells(n) :
                (p # q /\ Attack(p, q)) =>
                    \E G \in groups :
                        FlatIndex(p, n) \in G /\ FlatIndex(q, n) \in G

(***************************************************************************)
(* quantum_solver.py: NQueensQuantumSolver.solve, statement by statement   *)
(* up to the run of the sampler.  frame holds the locals of solve; the     *)
(* Grover circuit is the list of the calls made on it, an appended         *)
(* sub-circuit being listed by its name and the qubits it is appended to.  *)
(* QuantumCircuit.append raises CircuitError unless the appended circuit   *)
(* has as many qubits as it is given and no classical bit left without an  *)
(* argument.                                                               *)
(***************************************************************************)
\* a local that has not been assigned yet
NoCircuit == [num_qubits |-> 0, gates |-> <<>>]

\* a loop that always runs once
num_iterations_One(m) == 1

\* num_iterations = 1 if self.n <= 4 else 2
num_iterations(m) == IF m <= 4 THEN 1 ELSE 2

\* the classical bits of a circuit (QuantumCircuit(k) has none)
Clbits(circuit) ==
    IF "num_clbits" \in DOMAIN circuit THEN circuit.num_clbits ELSE 0

\* grover_circuit.append(circuit, qargs) is accepted
AppendFits(circuit, qargs) ==
    circuit.num_qubits = Len(qargs) /\ Clbits(circuit) = 0

InitGrover ==
    /\ pc = "NQueensQuantumSolver"
    /\ n \in MinN..MaxN
    /\ shots \in ShotsValues
    /\ sampler \in Samplers
    /\ frame \in {[use_simplified_oracle |-> u, oracle |-> NoCircuit,
                    diffuser |-> NoCircuit, grover_circuit |-> NoCircuit,
                    num_iterations |-> 0, i |-> 0, runs |-> 0] :
                      u \in BOOLEAN}
    /\ measured = <<>>
    /\ ret = "none"
    /\ env = <<>>
    /\ validation = "not run"
    /\ reported = Unreported
    /\ basis = <<>>
    /\ board = <<>>
    /\ bitstring = <<>>
    /\ graph = "none"
    /\ num_colors = 0
    /\ coloring = <<>>

\* the variables a statement of solve leaves alone besides pc and frame
solveRest ==
    <<n, board, bitstring, ret, shots, sampler, measured, env, validation,
      reported, basis, graphVars>>

\* "if use_simplified_oracle: oracle = ... else: oracle = ..."
SolveCreateOracle ==
    /\ pc = "NQueensQuantumSolver"
    /\ pc' = "solve.oracle"
    /\ frame' = [frame EXCEPT !.oracle =
                     IF frame.use_simplified_oracle
                     THEN create_simplified_oracle(n)
                     ELSE create_constraint_oracle(n)]
    /\ UNCHANGED solveRest

\* "diffuser = self.create_diffuser()"
SolveCreateDiffuser ==
    /\ pc = "solve.oracle"
    /\ pc' = "solve.diffuser"
    /\ frame' = [frame EXCEPT !.diffuser = create_diffuser(n)]
    /\ UNCHANGED solveRest

\* "grover_circuit = QuantumCircuit(self.num_qubits)", the H gates and
\* num_iterations
SolveInitCircuit ==
    /\ pc = "solve.diffuser"
    /\ pc' = "solve.loop"
    /\ frame' = [frame EXCEPT
                     !.grover_circuit =
                         [num_qubits |-> n * n,
                          gates |-> <<Gate("h", RangeList(n * n))>>],
                     !.num_iterations = num_iterations(n),
                     !.i = 0]
    /\ UNCHANGED solveRest

\* "grover_circuit.append(oracle, range(self.num_qubits))"
SolveAppendOracle ==
    /\ pc = "solve.loop"
    /\ frame.i < frame.num_iterations
    /\ IF AppendFits(frame.oracle, RangeList(n * n))
       THEN /\ pc' = "solve.oracle appended"
            /\ frame' = [frame EXCEPT !.grover_circuit.gates =
                             Append(@, Gate("oracle", RangeList(n * n)))]
            /\ ret' = ret
       ELSE /\ pc' = "raised"
            /\ ret' = "CircuitError"
            /\ frame' = frame
    /\ UNCHANGED <<n, board, bitstring, shots, sampler, measured, env,
                   validation, reported, basis, graphVars>>

\* "grover_circuit.append(diffuser, range(self.num_qubits))"
SolveAppendDiffuser ==
    /\ pc = "solve.oracle appended"
    /\ pc' = "solve.loop"
    /\ frame' = [frame EXCEPT
                     !.grover_circuit.gates =
                         Append(@, Gate("diffuser", RangeList(n * n))),
                     !.i = @ + 1]
    /\ UNCHANGED solveRest

\* "grover_circuit.measure_all()"
SolveMeasureAll ==
    /\ pc = "solve.loop"
    /\ frame.i >= frame.num_iterations
    /\ pc' = "solve.measured"
    /\ frame' = [frame EXCEPT !.grover_circuit.gates =
                     Append(@, Gate("measure_all", RangeList(n * n)))]
    /\ UNCHANGED solveRest

\* "sampler = Sampler(); job = sampler.run([grover_circuit], shots=shots)"
\* and the rest of solve
SolveRunSampler ==
    /\ pc = "solve.measured"
    /\ frame' = [frame EXCEPT !.runs = @ + 1]
    /\ \E got \in get_counts(sampler, n, shots) :
           /\ measured' = got
           /\ IF solve_raises(sampler, got)
              THEN pc' = "raised" /\ ret' = "ZeroDivisionError"
              ELSE pc' = "solve" /\ ret' = solve(n, shots, sampler, got)
    /\ UNCHANGED <<n, board, bitstring, shots, sampler, env, validation,
                   reported, basis, graphVars>>

NextGrover ==
    \/ SolveCreateOracle
    \/ SolveCreateDiffuser
    \/ SolveInitCircuit
    \/ SolveAppendOracle
    \/ SolveAppendDiffuser
    \/ SolveMeasureAll
    \/ SolveRunSampler

SpecGrover == InitGrover /\ [][NextGrover]_vars

\* C21: for both values of use_simplified_oracle and every n in 2..6, the
\* oracle that solve appends in each Grover iteration has exactly n * n
\* qubits, the width of the Grover circuit and of the qubit range it is
\* appended to, so the append is accepted and the circuit is assembled.
C21_OracleWidthIsBoardWidth ==
    /\ pc \in {"solve.oracle", "solve.diffuser", "solve.loop",
               "solve.oracle appended"} =>
           frame.oracle.num_qubits = n * n
    /\ pc = "raised" => ret # "CircuitError"

\* the calls that make up a Grover circuit of k iterations on m * m qubits
RECURSIVE GroverIterations(_, _)
GroverIterations(qubits, k) ==
    IF k = 0 THEN <<>>
    ELSE << [name |-> "oracle", qubits |-> qubits],
            [name |-> "diffuser", qubits |-> qubits] >>
         \o GroverIterations(qubits, k - 1)

ExpectedGrover(m, k) ==
    <<[name |-> "h", qubits |-> RangeList(m * m)]>>
    \o GroverIterations(RangeList(m * m), k)
    \o <<[name |-> "measure_all", qubits |-> RangeList(m * m)]>>

IsPrefix(a, b) == Len(a) <= Len(b) /\ a = SubSeq(b, 1, Len(a))

\* C22: the Grover circuit assembled by solve is, in order, H on all n * n
\* qubits, k repetitions of (oracle, diffuser), then the measurement of
\* all qubits; the sampler is run only after that, and once.  k = 1 when
\* n <= 4 and k = 2 when n > 4, whatever shots and the oracle are.
C22_GroverOrder ==
    LET k == IF n <= 4 THEN 1 ELSE 2
        gates == frame.grover_circuit.gates
    IN  /\ IsPrefix(gates, ExpectedGrover(n, k))
        /\ frame.runs <= 1
        /\ frame.runs = 1 => gates = ExpectedGrover(n, k)
        /\ pc = "solve.measured" => gates = ExpectedGrover(n, k)
        /\ pc \in {"solve.loop", "solve.oracle appended", "solve.measured",
                   "solve"} => frame.num_iterations = k

\* a 5 x 5 board: two iterations, then the measurement, then one run
C22_Witness ==
    /\ pc = "solve"
    /\ n = 5
    /\ frame.runs = 1
    /\ Len(frame.grover_circuit.gates) = 6
    /\ frame.grover_circuit.gates[4].name = "oracle"

(***************************************************************************)
(* Properties of simulate_graph_coloring.                                  *)
(***************************************************************************)
\* col2 extends col1 by exactly the vertex v
ExtendsBy(col1, col2, v) ==
    /\ DOMAIN col2 = DOMAIN col1 \cup {v}
    /\ v \notin DOMAIN col1
    /\ \A u \in DOMAIN col1 : col2[u] = col1[u]

\* C23: for each of the ten example graphs and each num_colors in 2..5,
\* simulate_graph_coloring returns, when num_colors is below the declared
\* chromatic value, exactly one state with an empty coloring and is_valid
\* False; otherwise exactly vertices + 1 states: one per vertex in index
\* order, each valid and extending the previous coloring by that vertex
\* only, then a final valid state whose coloring is total, proper and uses
\* only colors below num_colors.  No forced-conflict, "Testing
\* configuration" or "No valid coloring exists" state is produced.
C23_SimulationStates ==
    (pc = "simulate_graph_coloring" /\ graph \in ExampleGraphs
        /\ num_colors \in 2..5) =>
        IF num_colors < graph.chromatic
        THEN /\ Len(ret) = 1
             /\ DOMAIN ret[1].coloring = {}
             /\ ret[1].is_valid = FALSE
             /\ ret[1].description.text = "Impossible: Need at least colors!"
        ELSE LET V == graph.vertices
             IN  /\ Len(ret) = V + 1
                 /\ \A i \in 1..V :
                        /\ ret[i].is_valid = TRUE
                        /\ ret[i].description.text = "Coloring vertex (color )"
                        /\ ret[i].description.args[1] = i - 1
                        /\ ExtendsBy(IF i = 1 THEN <<>> ELSE ret[i - 1].coloring,
                                     ret[i].coloring, i - 1)
                 /\ Step1(graph, num_colors).forced = {}
                 /\ ret[V + 1].is_valid = TRUE
                 /\ ret[V + 1].description.text = "Valid -coloring found!"
                 /\ ret[V + 1].coloring \in ProperColorings(graph, num_colors)

\* the Pentagon Cycle with 3 colors: five vertex states and the final one
C23_Witness ==
    /\ pc = "simulate_graph_coloring"
    /\ graph = graphs["Pentagon Cycle"]
    /\ num_colors = 3
    /\ Len(ret) = 6
    /\ ret[6].coloring[4] = 2

\* C24: the two copies of the greedy loop agree: on every graph without
\* self-loops and every num_colors in 1..5, find_valid_coloring returns
\* None if and only if the Step-1 loop takes its forced-conflict branch
\* for some vertex, if and only if the final Step-1 coloring is rejected
\* by check_graph_coloring_validity; a coloring returned by
\* find_valid_coloring is identical to the final Step-1 coloring.
C24_GreedyCopiesAgree ==
    (pc = "simulate_graph_coloring" /\ LoopFree(graph)) =>
        LET found == find_valid_coloring(graph.vertices, graph.edges,
                                         num_colors)
            s1 == Step1(graph, num_colors)
        IN  /\ found.is_none <=> s1.forced # {}
            /\ s1.forced # {} <=>
                   ~ check_graph_coloring_validity(graph, s1.temp_coloring)
            /\ ~ found.is_none => found.value = s1.temp_coloring

\* a graph on which the Step-1 loop forces a conflict at its last vertex
\* and the simulation ends with "No valid coloring exists"
C24_Witness ==
    /\ pc = "simulate_graph_coloring"
    /\ LoopFree(graph)
    /\ num_colors >= 2
    /\ Step1(graph, num_colors).forced = {graph.vertices - 1}
    /\ ret[Len(ret)].description.text = "No valid -coloring exists"
    /\ Len(ret) = graph.vertices + 3

(***************************************************************************)
(* The two N-Queens validators compared.                                   *)
(***************************************************************************)
\* no two queens of the board share a row, a column or a diagonal
AtMostOnePerLine(b, m) ==
    \A p \in QueenSet(b, m) : \A q \in QueenSet(b, m) :
        p # q => ~ Attack(p, q)

BoardState(b, text, args, is_valid) ==
    [board |-> b, description |-> [text |-> text, args |-> args],
     is_valid |-> is_valid]

\* "for i in range(len(queen_positions))": one state per queen placed
PlacementStates(m, positions) ==
    [i \in 1..Len(positions) |->
        LET current_board == PlaceQueens(zeros(m), m, SubSeq(positions, 1, i))
        IN  BoardState(current_board, "Placing Queen /",
                       <<i, Len(positions)>>,
                       check_n_queens_validity(current_board, m))]

\* "for state_num in range(2)": one state per random board
RandomStates(m, draws) ==
    [k \in 1..2 |->
        LET random_board == PlaceQueens(zeros(m), m, draws[k])
        IN  BoardState(random_board, "Testing Random Configuration",
                       <<k>>, check_n_queens_validity(random_board, m))]

generate_intermediate_states(m, final_solution, draws) ==
    IF m = 3 \/ m = 2
    THEN << BoardState(zeros(m), "No Solution Exists for -Queens", <<m>>,
                       FALSE) >>
    ELSE PlacementStates(m, queen_positions(m))
         \o RandomStates(m, draws)
         \o << BoardState(final_board(m), "Final Valid Solution Found!",
                          <<>>, TRUE) >>

\* values of result['most_probable'] handed over by
\* simulate_quantum_search: '0' and '1' (the measured bitstrings 0...00
\* and 0...01) and the default '0' * num_qubits
FinalSolutions(m) == {<<"0">>, <<"1">>, ZeroString(m * m)}

\* outcomes of the n random draws of one board: always the same square,
\* the main diagonal, the first row, two squares in turn, and the squares
\* of queen_positions
DrawSequences(m) ==
    {[i \in 1..m |-> <<0, 0>>],
     [i \in 1..m |-> <<i - 1, i - 1>>],
     [i \in 1..m |-> <<0, i - 1>>],
     [i \in 1..m |-> <<(i - 1) % 2, m - 1>>],
     queen_positions(m)}

InitStates ==
    /\ pc = "input"
    /\ n \in MinN..MaxFallbackN
    /\ bitstring \in FinalSolutions(n)
    /\ ret = "none"
    /\ env = <<>>
    /\ validation = "not run"
    /\ reported = Unreported
    /\ basis = <<>>
    /\ frame = <<>>
    /\ board = <<>>
    /\ shots = 0
    /\ sampler = "none"
    /\ measured = <<>>
    /\ graph = "none"
    /\ num_colors = 0
    /\ coloring = <<>>

CallGenerateIntermediateStates ==
    /\ pc = "input"
    /\ pc' = "generate_intermediate_states"
    /\ \E d1 \in DrawSequences(n) : \E d2 \in DrawSequences(n) :
           /\ frame' = <<d1, d2>>
           /\ ret' = generate_intermediate_states(n, bitstring, <<d1, d2>>)
    /\ UNCHANGED <<graphVars, queensVars, env, validation, reported, basis>>

NextStates == CallGenerateIntermediateStates

SpecStates == InitStates /\ [][NextStates]_vars

\* C26: every state returned by generate_intermediate_states carries an
\* is_valid flag equal to check_n_queens_validity(state board, n), for
\* every n in 2..8, every outcome of the random placements and every
\* final_solution; in particular the last state, flagged True, is a board
\* the checker accepts.
C26_FlagsMatchChecker ==
    pc = "generate_intermediate_states" =>
        \A i \in 1..Len(ret) :
            ret[i].is_valid = check_n_queens_validity(ret[i].board, n)

\* the queens of the known solutions in the order they are placed
KnownOrder(m) ==
    IF m = 4 THEN << <<1, 0>>, <<3, 1>>, <<0, 2>>, <<2, 3>> >>
    ELSE IF m = 5 THEN << <<0, 0>>, <<2, 1>>, <<4, 2>>, <<1, 3>>, <<3, 4>> >>
    ELSE << <<1, 0>>, <<3, 1>>, <<5, 2>>, <<0, 3>>, <<2, 4>>, <<4, 5>> >>

\* C27: for n in {4,5,6} generate_intermediate_states returns exactly
\* n + 3 states: n placement states, the i-th holding exactly the first i
\* queens of the known solution and only the n-th flagged valid; then 2
\* random states holding between 1 and n queens each; then one final state
\* whose board is the full known solution.  For n in {2,3} it returns
\* exactly one state, with an empty board and is_valid False.  Apart from
\* the random states the result does not depend on final_solution.
C27_StatesShape ==
    pc = "generate_intermediate_states" =>
        /\ n \in {4, 5, 6} =>
               /\ Len(ret) = n + 3
               /\ \A i \in 1..n :
                      /\ QueenSet(ret[i].board, n) =
                             {KnownOrder(n)[j] : j \in 1..i}
                      /\ ret[i].is_valid = (i = n)
               /\ \A i \in (n + 1)..(n + 2) :
                      Cardinality(QueenSet(ret[i].board, n)) \in 1..n
               /\ QueenSet(ret[n + 3].board, n) = Range(KnownOrder(n))
        /\ n \in {2, 3} =>
               /\ Len(ret) = 1
               /\ QueenSet(ret[1].board, n) = {}
               /\ ret[1].is_valid = FALSE
        /\ \A fs \in FinalSolutions(n) :
               generate_intermediate_states(n, fs, frame) = ret

\* a 5 x 5 run in which the first random board happens to be a solution
\* and the second holds a single queen
C27_Witness ==
    /\ pc = "generate_intermediate_states"
    /\ n = 5
    /\ Len(bitstring) = 25
    /\ Len(ret) = 8
    /\ ret[6].is_valid = TRUE
    /\ Cardinality(QueenSet(ret[7].board, n)) = 1

(***************************************************************************)
(* solve_deutsch_jozsa of app_enhanced_real_time.py.  The page picks a     *)
(* function type and a number of input qubits, builds the function, its    *)
(* oracle and the circuit, classifies the function from its truth table,   *)
(* and on a button press runs the circuit and reads the counts.  frame     *)
(* holds the locals of the page, env the outcome of reading the            *)
(* measurement data, measured the dict get_counts() returns when the read  *)
(* succeeds, and ret the message the run shows.                            *)
(***************************************************************************)
\* the options of the selectbox
FunctionTypes ==
    {"Constant (All 0s)", "Constant (All 1s)", "Balanced (Alternating)",
     "Balanced (Random)"}

ConstantTypes == {"Constant (All 0s)", "Constant (All 1s)"}

\* the range of the slider
MinQubits == 1
MaxQubits == 4

\* 2**k
RECURSIVE Pow2(_)
Pow2(k) == IF k = 0 THEN 1 ELSE 2 * Pow2(k - 1)

\* format(i, 'b')
RECURSIVE FormatB(_)
FormatB(i) ==
    IF i < 2 THEN <<DigitChar(i)>>
    ELSE Append(FormatB(i \div 2), DigitChar(i % 2))

\* format(i, f'0{w}b'): zero-padded on the left up to width w
format_0b(i, w) ==
    LET str == FormatB(i)
    IN  IF Len(str) >= w THEN str ELSE ZeroString(w - Len(str)) \o str

\* int(x, 2) of a short string
RECURSIVE int_2(_)
int_2(x) ==
    IF x = <<>> THEN 0
    ELSE 2 * int_2(SubSeq(x, 1, Len(x) - 1))
         + (IF x[Len(x)] = "1" THEN 1 ELSE 0)

\* x.count('1')
count_1(x) == Cardinality({i \in 1..Len(x) : x[i] = "1"})

\* a balanced function whose threshold is the number of inputs
create_function_HalfIsTotal(func_type, m) ==
    IF func_type \in ConstantTypes \cup {"Balanced (Alternating)"}
    THEN [func_type |-> func_type, half |-> 0]
    ELSE [func_type |-> func_type, half |-> Pow2(m)]

\* create_function returns a closure: the branch taken and, for the last
\* branch, the captured half
create_function(func_type, m) ==
    IF func_type \in ConstantTypes \cup {"Balanced (Alternating)"}
    THEN [func_type |-> func_type, half |-> 0]
    ELSE LET total_inputs == Pow2(m)
         IN  [func_type |-> func_type, half |-> total_inputs \div 2]

\* f(x) for a closure returned by create_function
f_call(f, x) ==
    IF f.func_type = "Constant (All 0s)" THEN 0
    ELSE IF f.func_type = "Constant (All 1s)" THEN 1
    ELSE IF f.func_type = "Balanced (Alternating)" THEN count_1(x) % 2
    ELSE IF int_2(x) >= f.half THEN 1 ELSE 0

\* [f(format(i, f'0{n}b')) for i in range(2**n)]
outputs(f, m) == [k \in 1..Pow2(m) |-> f_call(f, format_0b(k - 1, m))]

\* the gates of one marked input of the balanced branch
MarkInput(input_str, m) ==
    LET zeros_at == SelectSeq(RangeList(m),
                              LAMBDA j : input_str[j + 1] = "0")
        flips == [k \in 1..Len(zeros_at) |-> Gate("x", <<zeros_at[k]>>)]
    IN  flips \o HMcxH(RangeList(m), m) \o flips

\* the balanced branch from input i on
RECURSIVE BalancedGates(_, _, _)
BalancedGates(f, m, i) ==
    IF i >= Pow2(m) THEN <<>>
    ELSE LET input_str == format_0b(i, m)
         IN  (IF f_call(f, input_str) = 1 THEN MarkInput(input_str, m)
              ELSE <<>>)
             \o BalancedGates(f, m, i + 1)

create_oracle(f, m) ==
    LET unique_outputs == Range(outputs(f, m))
    IN  [num_qubits |-> m + 1,
         gates |->
            IF Cardinality(unique_outputs) = 1
            THEN (IF outputs(f, m)[1] = 1 THEN <<Gate("x", <<m>>)>>
                  ELSE <<>>)
            ELSE BalancedGates(f, m, 0)]

\* registers x (n qubits), y (one qubit) and c (n classical bits)
create_deutsch_jozsa_circuit(f, m) ==
    [num_qubits |-> m + 1,
     num_clbits |-> m,
     cregs |-> <<"c">>,
     gates |->
        << Gate("x", <<m>>), Gate("h", <<m>>), Gate("h", RangeList(m)),
           Gate("barrier", RangeList(m + 1)) >>
        \o create_oracle(f, m).gates
        \o << Gate("barrier", RangeList(m + 1)), Gate("h", RangeList(m)),
              Gate("measure", RangeList(m)) >>]

\* the label shown next to the truth table
classify(f, m) ==
    IF Cardinality(Range(outputs(f, m))) = 1 THEN "Constant"
    ELSE "Balanced"

\* a fallback that always fabricates the four-qubit outcome
fallback_counts_FourZeros(m) == << <<ZeroString(4), 1000>> >>

\* counts = {'0' * n_qubits: 1000}
fallback_counts(m) == << <<ZeroString(m), 1000>> >>

\* str.startswith(prefix)
startswith(str, prefix) ==
    Len(str) >= Len(prefix) /\ SubSeq(str, 1, Len(prefix)) = prefix

all_zeros(counts, m) ==
    IF m = 1
    THEN \A k \in 1..Len(counts) : counts[k][1] = <<"0">>
    ELSE \A k \in 1..Len(counts) : startswith(counts[k][1], ZeroString(m))

\* the exceptions the inner try catches
CaughtErrors == {"AttributeError", "IndexError", "TypeError"}

\* what reading result[0].data.meas.get_counts() can do: return a dict or
\* raise; KeyError stands for the exceptions the inner try lets through
ReadOutcomes == {"returned", "KeyError"} \cup CaughtErrors

\* the dicts a successful read can return: one outcome, the two extreme
\* outcomes together, or the canned dict of the MockSampler
ReadCounts(m) ==
    { << <<str, 1000>> >> : str \in [1..m -> {"0", "1"}] }
    \cup { << <<ZeroString(m), 500>>, <<[k \in 1..m |-> "1"], 500>> >>,
           << <<ZeroString(4), 1000>> >> }

InitDJ ==
    /\ pc = "solve_deutsch_jozsa"
    /\ env \in ReadOutcomes
    /\ frame \in {[function_type |-> t, n_qubits |-> q, f |-> "none",
                    oracle |-> NoCircuit, circuit |-> NoCircuit,
                    func_type |-> "none", counts |-> <<>>,
                    all_zeros |-> FALSE, error |-> None] :
                      t \in FunctionTypes, q \in MinQubits..MaxQubits}
    /\ measured \in (IF env = "returned" THEN ReadCounts(frame.n_qubits)
                     ELSE {<<>>})
    /\ ret = "none"
    /\ n = 0
    /\ board = <<>>
    /\ bitstring = <<>>
    /\ shots = 1000
    /\ sampler = "Sampler"
    /\ validation = "not run"
    /\ reported = Unreported
    /\ basis = <<>>
    /\ graph = "none"
    /\ num_colors = 0
    /\ coloring = <<>>

\* the variables a statement of the page leaves alone besides pc and frame
pageRest ==
    <<n, board, bitstring, shots, sampler, measured, env, validation,
      reported, basis, graphVars>>

\* f = create_function(function_type, n_qubits)
DJCreateFunction ==
    /\ pc = "solve_deutsch_jozsa"
    /\ pc' = "create_function"
    /\ frame' = [frame EXCEPT
                   !.f = create_function(frame.function_type,
                                         frame.n_qubits)]
    /\ UNCHANGED <<ret, pageRest>>

\* circuit = create_deutsch_jozsa_circuit(f, n_qubits)
DJCreateCircuit ==
    /\ pc = "create_function"
    /\ pc' = "create_deutsch_jozsa_circuit"
    /\ frame' = [frame EXCEPT
                   !.oracle = create_oracle(frame.f, frame.n_qubits),
                   !.circuit = create_deutsch_jozsa_circuit(
                                   frame.f, frame.n_qubits)]
    /\ UNCHANGED <<ret, pageRest>>

\* the truth table and the function type shown next to it
DJTruthTable ==
    /\ pc = "create_deutsch_jozsa_circuit"
    /\ pc' = "truth_table"
    /\ frame' = [frame EXCEPT
                   !.func_type = classify(frame.f, frame.n_qubits)]
    /\ UNCHANGED <<ret, pageRest>>

\* the button handler: run the circuit, read the counts, show the verdict
DJRun ==
    /\ pc = "truth_table"
    /\ pc' = "run"
    /\ IF env = "KeyError"
       THEN /\ frame' = [frame EXCEPT !.error = Some("Simulation failed")]
            /\ ret' = "Simulation failed"
       ELSE LET counts == IF env = "returned" THEN measured
                          ELSE fallback_counts(frame.n_qubits)
                az == all_zeros(counts, frame.n_qubits)
            IN  /\ frame' = [frame EXCEPT !.counts = counts,
                                          !.all_zeros = az]
                /\ ret' = IF az THEN "RESULT: Function is CONSTANT"
                          ELSE "RESULT: Function is BALANCED"
    /\ UNCHANGED pageRest

NextDJ ==
    \/ DJCreateFunction
    \/ DJCreateCircuit
    \/ DJTruthTable
    \/ DJRun

SpecDJ == InitDJ /\ [][NextDJ]_vars

\* the inputs on which a closure returns 1
OnesOfFunction(f, m) ==
    {x \in [1..m -> {"0", "1"}] : f_call(f, x) = 1}

\* the oracle was built by the constant branch: it has no controlled gate
ConstantBranch(oracle) ==
    \A k \in 1..Len(oracle.gates) : oracle.gates[k].name = "x"
                                    /\ oracle.gates[k].qubits
                                         = <<oracle.num_qubits - 1>>

\* C28: for n in 1..4 the function built by create_function returns 0
\* everywhere for 'Constant (All 0s)', 1 everywhere for 'Constant (All 1s)'
\* and 1 on exactly 2^(n-1) of the 2^n inputs for the two balanced types;
\* the truth table labels it Constant exactly for the constant types and
\* create_oracle takes its constant branch exactly for those.
C28_FunctionsMatchType ==
    pc \in {"truth_table", "run"} =>
        LET m == frame.n_qubits
            t == frame.function_type
            ones == OnesOfFunction(frame.f, m)
        IN  /\ t = "Constant (All 0s)" => ones = {}
            /\ t = "Constant (All 1s)" => ones = [1..m -> {"0", "1"}]
            /\ t \notin ConstantTypes => Cardinality(ones) = Pow2(m - 1)
            /\ Range(outputs(frame.f, m)) \subseteq {0, 1}
            /\ (frame.func_type = "Constant") = (t \in ConstantTypes)
            /\ (frame.func_type = "Balanced") = (t \notin ConstantTypes)
            /\ ConstantBranch(frame.oracle) = (t \in ConstantTypes)

\* the threshold function on one qubit, classified Balanced
C28_Witness ==
    /\ pc = "truth_table"
    /\ frame.function_type = "Balanced (Random)"
    /\ frame.n_qubits = 1
    /\ frame.f.half = 1
    /\ frame.func_type = "Balanced"
    /\ frame.oracle.gates = HMcxH(<<0>>, 1)

\* C29: when reading the measurement data raises AttributeError, IndexError
\* or TypeError, no error is shown, the counts become the single outcome
\* '0' * n_qubits with count 1000, and the verdict shown is 'Function is
\* CONSTANT' for every n_qubits in 1..4 and every function type.
C29_ReadErrorMeansConstant ==
    (pc = "run" /\ env \in CaughtErrors) =>
        /\ frame.error = None
        /\ frame.counts = << <<ZeroString(frame.n_qubits), 1000>> >>
        /\ frame.all_zeros
        /\ ret = "RESULT: Function is CONSTANT"

\* a balanced function on one qubit reported constant after a failed read
C29_Witness ==
    /\ pc = "run"
    /\ env = "AttributeError"
    /\ frame.function_type = "Balanced (Alternating)"
    /\ frame.func_type = "Balanced"
    /\ frame.n_qubits = 1
    /\ ret = "RESULT: Function is CONSTANT"

(***************************************************************************)
(* main of test_installation.py.  env records which imports of             *)
(* test_imports succeed, whether the body of test_basic_quantum_circuit    *)
(* raises and how the body of test_quantum_solver ends; frame holds the    *)
(* locals of main and ret the closing message it prints.                   *)
(***************************************************************************)
\* the import blocks of test_imports, in order
ImportBlocks ==
    <<"streamlit", "numpy", "matplotlib", "qiskit", "visualization">>

\* how the try body of test_quantum_solver can end
SolverOutcomes == {"returned", "ImportError", "Exception"}

InstallEnvs ==
    [streamlit : BOOLEAN, numpy : BOOLEAN, matplotlib : BOOLEAN,
     qiskit : BOOLEAN, visualization : BOOLEAN, circuit_raises : BOOLEAN,
     solver : SolverOutcomes]

\* test_imports from block k on: False at the first import that fails
RECURSIVE ImportsFrom(_, _)
ImportsFrom(e, k) ==
    IF k > Len(ImportBlocks) THEN TRUE
    ELSE IF ~e[ImportBlocks[k]] THEN FALSE
    ELSE ImportsFrom(e, k + 1)

test_imports(e) == ImportsFrom(e, 1)

test_basic_quantum_circuit(e) == ~e.circuit_raises

test_quantum_solver(e) == e.solver = "returned"

\* the closing message of main
Summary(imports_ok, circuit_ok, solver_ok) ==
    IF imports_ok /\ circuit_ok THEN "Installation successful"
    ELSE "Some tests failed"

InitInstall ==
    /\ pc = "main"
    /\ env \in InstallEnvs
    /\ frame = [imports_ok |-> FALSE, circuit_ok |-> FALSE,
                solver_ok |-> FALSE, solver_ran |-> FALSE]
    /\ ret = "none"
    /\ n = 0
    /\ board = <<>>
    /\ bitstring = <<>>
    /\ shots = 0
    /\ sampler = "none"
    /\ measured = <<>>
    /\ validation = "not run"
    /\ reported = Unreported
    /\ basis = <<>>
    /\ graph = "none"
    /\ num_colors = 0
    /\ coloring = <<>>

\* imports_ok = test_imports()
MainTestImports ==
    /\ pc = "main"
    /\ pc' = "main.imports"
    /\ frame' = [frame EXCEPT !.imports_ok = test_imports(env)]
    /\ UNCHANGED <<ret, pageRest>>

\* circuit_ok = test_basic_quantum_circuit(); solver_ok = False
MainTestCircuit ==
    /\ pc = "main.imports"
    /\ pc' = "main.circuit"
    /\ frame' = [frame EXCEPT
                   !.circuit_ok = test_basic_quantum_circuit(env),
                   !.solver_ok = FALSE]
    /\ UNCHANGED <<ret, pageRest>>

\* if imports_ok: solver_ok = test_quantum_solver()
MainTestSolver ==
    /\ pc = "main.circuit"
    /\ frame.imports_ok
    /\ pc' = "main.solver"
    /\ frame' = [frame EXCEPT !.solver_ok = test_quantum_solver(env),
                              !.solver_ran = TRUE]
    /\ UNCHANGED <<ret, pageRest>>

\* the imports failed: the solver test is skipped
MainSkipSolver ==
    /\ pc = "main.circuit"
    /\ ~frame.imports_ok
    /\ pc' = "main.solver"
    /\ UNCHANGED <<frame, ret, pageRest>>

\* the summary and the closing message
MainSummary ==
    /\ pc = "main.solver"
    /\ pc' = "main.done"
    /\ ret' = Summary(frame.imports_ok, frame.circuit_ok, frame.solver_ok)
    /\ UNCHANGED <<frame, pageRest>>

NextInstall ==
    \/ MainTestImports
    \/ MainTestCircuit
    \/ MainTestSolver
    \/ MainSkipSolver
    \/ MainSummary

SpecInstall == InitInstall /\ [][NextInstall]_vars

\* C30: main prints 'Installation successful' only when the imports test,
\* the basic-circuit test and the quantum-solver test all passed; the
\* quantum-solver test runs only when the imports test passed; and when
\* any of the three results is a failure 'Some tests failed' is printed.
C30_SuccessNeedsAllThree ==
    /\ frame.solver_ran => frame.imports_ok
    /\ pc = "main.done" =>
           /\ ret = "Installation successful" =>
                  (frame.imports_ok /\ frame.circuit_ok /\ frame.solver_ok)
           /\ ~(frame.imports_ok /\ frame.circuit_ok /\ frame.solver_ok) =>
                  ret = "Some tests failed"

====
